---- MODULE Spec2Model ----
(***************************************************************************)
(* A model of markitdown's PDF converter                                   *)
(* (packages/markitdown/src/markitdown/converters/_pdf_converter.py).      *)
(*                                                                         *)
(* Text is a sequence of one-character strings, so that splitting,         *)
(* stripping, padding and pattern matching are computed character by       *)
(* character as the Python code computes them.                             *)
(*                                                                         *)
(* Six specifications share the module:                                    *)
(*   SpecMerge  the post-processor _merge_partial_numbering_lines run on   *)
(*              every text over a small alphabet, once and then again;     *)
(*   SpecPage   _extract_form_content_from_words run on pages laid out     *)
(*              from rows of positioned words;                             *)
(*   SpecWide   the same function on pages of two widths laid out from     *)
(*              rows of many columns;                                      *)
(*   SpecGate   the same function on longer pages of three kinds of rows;   *)
(*   SpecTol    the same function on a very wide page of about ninety       *)
(*              pooled positions;                                          *)
(*   Spec       PdfConverter.convert, step by step, on documents made of   *)
(*              such pages.                                                *)
(***************************************************************************)
EXTENDS Integers, Sequences, FiniteSets, TLC

VARIABLES
    \* ---- SpecMerge ----
    text,        \* the input text of the post-processor, typed so far
    passOut,     \* the outputs of the successive runs of the post-processor
    mpc,         \* "typing" | "merged" | "off"
    \* ---- SpecPage, SpecWide, SpecGate, SpecTol ----
    pgWidth,     \* page.width of the page being laid out
    pgWords,     \* page.extract_words() of that page, in the order laid out
    pgSlot,      \* the next row slot to lay out
    pgOut,       \* what _extract_form_content_from_words computed for it
    ppc          \* "layout" | "extracted" | "off"

mergeVars == <<text, passOut, mpc>>
pageVars == <<pgWidth, pgWords, pgSlot, pgOut, ppc>>

VARIABLES
    \* ---- Spec: the module and one call of PdfConverter.convert ----
    form_content,         \* what _extract_form_content_from_words answers
                          \* for a page of each kind
    dependency_exc_info,  \* _dependency_exc_info: "None" | "ImportError"
    accepted,             \* what the last call of accepts returned
    earlier_calls,        \* a call of convert has ended before
    cpc,                  \* where the module or the running call stands
    doc,                  \* the bytes of file_stream: what both libraries
                          \* answer for them
    stream_reads,         \* calls of file_stream.read()
    pdf_pos,              \* position of pdf_bytes: 0, or 1 once it was read
    page_idx,             \* the page the loop over pdf.pages is at
    form_pages,
    plain_pages,
    markdown_chunks,
    page_log,             \* per page processed: its exit and its chunk
    markdown,
    markdown_from,        \* "none" | "chunks" | "linear": the last
                          \* assignment to markdown before post-processing
    linear_from,          \* pdf_pos at each call of the linear extractor
    layout_calls,         \* calls into the layout library
    handled,              \* entries into the except clause
    failed_at,            \* what raised inside the try block, if anything
    exception             \* the exception convert raised to its caller

callVars == <<doc, stream_reads, pdf_pos, page_idx, form_pages, plain_pages,
              markdown_chunks, page_log, markdown, markdown_from,
              linear_from, layout_calls, handled, failed_at, exception>>
convVars == <<form_content, dependency_exc_info, accepted, earlier_calls,
              cpc, doc,
              stream_reads, pdf_pos, page_idx, form_pages, plain_pages,
              markdown_chunks, page_log, markdown, markdown_from,
              linear_from, layout_calls, handled, failed_at, exception>>

vars == <<text, passOut, mpc, pgWidth, pgWords, pgSlot, pgOut, ppc,
          form_content, dependency_exc_info, accepted, earlier_calls, cpc,
          doc,
          stream_reads, pdf_pos, page_idx, form_pages, plain_pages,
          markdown_chunks, page_log, markdown, markdown_from,
          linear_from, layout_calls, handled, failed_at, exception>>

----------------------------------------------------------------------------
(* Bounds of the model *)

\* longest text the post-processor is run on in SpecMerge
MaxTextLen == 7

\* number of row slots of a page laid out in SpecPage
MaxSlots == 4

\* most pages of a document converted in Spec
MaxPages == 5
MaxGateSlots == 6

----------------------------------------------------------------------------
(* Characters and Python's string methods *)

NL == "\n"
SP == " "

\* str.strip() removes whitespace; of it the model's texts hold these two
Whitespace == {SP, NL}

\* \d of the pattern
Digits == {"0", "1", "2", "3", "4", "5", "6", "7", "8", "9"}

\* the letters a text of SpecMerge is typed from
MergeAlphabet == {".", "1", "a", SP, NL}

RECURSIVE LStrip(_)
LStrip(s) ==
    IF s = <<>> THEN <<>>
    ELSE IF s[1] \in Whitespace THEN LStrip(Tail(s))
    ELSE s

RECURSIVE RStrip(_)
RStrip(s) ==
    IF s = <<>> THEN <<>>
    ELSE IF s[Len(s)] \in Whitespace THEN RStrip(SubSeq(s, 1, Len(s) - 1))
    ELSE s

\* str.strip()
Strip(s) == RStrip(LStrip(s))

\* the index of the first occurrence of character c in s, 0 when there is none
RECURSIVE IndexFrom(_, _, _)
IndexFrom(s, c, i) ==
    IF i > Len(s) THEN 0
    ELSE IF s[i] = c THEN i
    ELSE IndexFrom(s, c, i + 1)

\* str.split(c) for a one-character separator: "" splits to [""]
RECURSIVE Split(_, _)
Split(s, c) ==
    LET k == IndexFrom(s, c, 1)
    IN  IF k = 0 THEN <<s>>
        ELSE <<SubSeq(s, 1, k - 1)>> \o Split(SubSeq(s, k + 1, Len(s)), c)

\* sep.join(parts)
RECURSIVE Join(_, _)
Join(parts, sep) ==
    IF parts = <<>> THEN <<>>
    ELSE IF Len(parts) = 1 THEN parts[1]
    ELSE parts[1] \o sep \o Join(Tail(parts), sep)

\* PARTIAL_NUMBERING_PATTERN.match(s) for ^\.\d+$ on a string s holding no
\* line break: a dot, then one or more digits, and nothing else
PARTIAL_NUMBERING_PATTERN(s) ==
    /\ Len(s) >= 2
    /\ s[1] = "."
    /\ \A k \in 2..Len(s) : s[k] \in Digits

----------------------------------------------------------------------------
(* _merge_partial_numbering_lines *)

\* the inner while loop as it would be if it did not pass over blank lines
NextNonBlankImmediate(lines, j) == j

\* the index of the next line at or after j whose strip() is not empty,
\* Len(lines) + 1 when there is none (the inner while loop)
RECURSIVE NextNonBlank(_, _)
NextNonBlank(lines, j) ==
    IF j <= Len(lines) /\ Strip(lines[j]) = <<>>
    THEN NextNonBlank(lines, j + 1)
    ELSE j

\* the merge as it would be if the next line were consumed and not copied
MergedLinePrefixOnly(stripped, next_line) == stripped

\* the merge as it would be if the joining space were forgotten
MergedLineNoSpace(stripped, next_line) == stripped \o next_line

\* the line a bare prefix and the next non-blank line are merged into
MergedLine(stripped, next_line) == stripped \o <<SP>> \o next_line

\* the outer while loop as it would be if it resumed at the merged line
\* and not behind it
RECURSIVE MergeLoopRescanning(_, _, _)
MergeLoopRescanning(lines, i, result_lines) ==
    IF i > Len(lines) THEN result_lines
    ELSE
        LET line == lines[i]
            stripped == Strip(line)
        IN  IF PARTIAL_NUMBERING_PATTERN(stripped)
            THEN LET j == NextNonBlank(lines, i + 1)
                 IN  IF j <= Len(lines)
                     THEN MergeLoopRescanning(lines, j,
                            Append(result_lines,
                                   MergedLine(stripped, Strip(lines[j]))))
                     ELSE MergeLoopRescanning(lines, i + 1,
                                              Append(result_lines, line))
            ELSE MergeLoopRescanning(lines, i + 1, Append(result_lines, line))

\* the outer while loop from index i, result_lines being built
RECURSIVE MergeLoop(_, _, _)
MergeLoop(lines, i, result_lines) ==
    IF i > Len(lines) THEN result_lines
    ELSE
        LET line == lines[i]
            stripped == Strip(line)
        IN  IF PARTIAL_NUMBERING_PATTERN(stripped)
            THEN LET j == NextNonBlank(lines, i + 1)
                 IN  IF j <= Len(lines)
                     THEN MergeLoop(lines, j + 1,
                            Append(result_lines,
                                   MergedLine(stripped, Strip(lines[j]))))
                     ELSE MergeLoop(lines, i + 1, Append(result_lines, line))
            ELSE MergeLoop(lines, i + 1, Append(result_lines, line))

\* the post-processor as it would be if it ended its output with a newline
MergeEndingInNewline(t) ==
    Join(MergeLoop(Split(t, NL), 1, <<>>), <<NL>>) \o <<NL>>

merge_partial_numbering_lines(t) ==
    Join(MergeLoop(Split(t, NL), 1, <<>>), <<NL>>)

----------------------------------------------------------------------------
(* _extract_form_content_from_words: the words of a page                   *)
(*                                                                         *)
(* A word is [text, x0, x1, top]; coordinates are integers >= 0.  A page   *)
(* is [width, words, text, words_raise, text_raise]: what the layout       *)
(* library answers for it (page.width, page.extract_words(),               *)
(* page.extract_text(), and whether either call raises).                   *)

\* the value None of Python; no text equals it
None == <<"None">>

y_tolerance == 5

\* y_key = round(word["top"] / y_tolerance) * y_tolerance; top is an integer
\* >= 0, so top / 5 is never half way and round() is to the nearest
YKey(w) == ((2 * w.top + y_tolerance) \div (2 * y_tolerance)) * y_tolerance

\* sorted(S) for a finite set of integers
RECURSIVE SortedSeqOf(_)
SortedSeqOf(S) ==
    IF S = {} THEN <<>>
    ELSE LET m == CHOOSE x \in S : \A y \in S : x <= y
         IN  <<m>> \o SortedSeqOf(S \ {m})

\* sorted_y_keys = sorted(rows_by_y.keys())
SortedYKeys(words) == SortedSeqOf({YKey(words[k]) : k \in 1..Len(words)})

\* w put into a sequence sorted by x0, behind the words whose x0 is <= its own
RECURSIVE InsertByX0(_, _)
InsertByX0(sorted, w) ==
    IF sorted = <<>> THEN <<w>>
    ELSE IF sorted[1].x0 <= w.x0
         THEN <<sorted[1]>> \o InsertByX0(Tail(sorted), w)
         ELSE <<w>> \o sorted

\* sorted(ws, key=lambda w: w["x0"]): Python's sort is stable
RECURSIVE SortByX0(_)
SortByX0(ws) ==
    IF ws = <<>> THEN <<>>
    ELSE InsertByX0(SortByX0(SubSeq(ws, 1, Len(ws) - 1)), ws[Len(ws)])

\* rows_by_y[y_key], in the order the words were met, then sorted by x0
RowWords(words, y_key) ==
    SortByX0(SelectSeq(words, LAMBDA w : YKey(w) = y_key))

\* the texts of the words of a row
WordTexts(row_words) == [k \in 1..Len(row_words) |-> row_words[k].text]

\* the gap over which a word start opens a new x-group of its row
x_group_gap == 50

\* x_groups of the sorted x-positions xs, from index k on
RECURSIVE XGroupsFrom(_, _, _)
XGroupsFrom(xs, k, x_groups) ==
    IF k > Len(xs) THEN x_groups
    ELSE IF x_groups = <<>> \/ xs[k] - x_groups[Len(x_groups)] > x_group_gap
         THEN XGroupsFrom(xs, k + 1, Append(x_groups, xs[k]))
         ELSE XGroupsFrom(xs, k + 1, x_groups)

\* is_paragraph as it would be with the width threshold at 85% of the page
IsParagraphWide(line_width, combined_text, page_width) ==
    /\ 100 * line_width > 85 * page_width
    /\ Len(combined_text) > 60

\* is_paragraph: line_width > page_width * 0.55 and len(combined_text) > 60
\* (the product is compared exactly: 100 * line_width > 55 * page_width)
paragraph_chars == 60

IsParagraph(line_width, combined_text, page_width) ==
    /\ 100 * line_width > 55 * page_width
    /\ Len(combined_text) > paragraph_chars

\* the dict appended to row_info for the row at y_key (first pass)
RowInfo(words, y_key, page_width) ==
    LET row_words == RowWords(words, y_key)
        first_x0 == row_words[1].x0
        last_x1 == row_words[Len(row_words)].x1
        line_width == last_x1 - first_x0
        combined_text == Join(WordTexts(row_words), <<SP>>)
        x_positions == [k \in 1..Len(row_words) |-> row_words[k].x0]
        x_groups == XGroupsFrom(x_positions, 1, <<>>)
    IN  [y_key |-> y_key,
         words |-> row_words,
         text |-> combined_text,
         x_groups |-> x_groups,
         is_paragraph |-> IsParagraph(line_width, combined_text, page_width),
         num_columns |-> Len(x_groups),
         has_partial_numbering |->
             PARTIAL_NUMBERING_PATTERN(Strip(row_words[1].text))]

\* row_info after the first pass: one entry per y_key, top to bottom
RowInfos(words, page_width) ==
    LET keys == SortedYKeys(words)
    IN  [k \in 1..Len(keys) |-> RowInfo(words, keys[k], page_width)]

----------------------------------------------------------------------------
(* The column model of a page *)

\* list.sort() of a list of integers
SortInts(xs) == SortSeq(xs, LAMBDA a, b : a < b)

\* a row contributes its x_groups to the pool
min_table_columns == 3

\* the pool as it would be if it asked for more than three columns
PoolsOverThree(info) ==
    info.num_columns > min_table_columns /\ ~info.is_paragraph

\* the pooling rule as it would be if rows of two x_groups were pooled too
PoolsFromTwo(info) ==
    info.num_columns >= min_table_columns - 1 /\ ~info.is_paragraph

Pools(info) == info.num_columns >= min_table_columns /\ ~info.is_paragraph

\* all_table_x_positions before it is sorted
RECURSIVE PooledFrom(_, _)
PooledFrom(row_info, k) ==
    IF k > Len(row_info) THEN <<>>
    ELSE (IF Pools(row_info[k]) THEN row_info[k].x_groups ELSE <<>>)
         \o PooledFrom(row_info, k + 1)

\* all_table_x_positions, sorted
AllTableXPositions(row_info) == SortInts(PooledFrom(row_info, 1))

\* the gaps between consecutive pooled positions that count
gap_noise_floor == 5

GapsFrom(pool, k) ==
    SelectSeq([j \in 1..(Len(pool) - k) |-> pool[k + j] - pool[k + j - 1]],
              LAMBDA gap : gap > gap_noise_floor)
Max2(a, b) == IF a >= b THEN a ELSE b
Min2(a, b) == IF a <= b THEN a ELSE b

min_gaps == 3
tolerance_low == 25
tolerance_high == 50
tolerance_fallback == 35

\* the largest power of two below k, for k >= 2
RECURSIVE Pow2Below(_)
Pow2Below(k) == IF k <= 2 THEN 1 ELSE 2 * Pow2Below((k + 1) \div 2)

\* n * 0.70 in double precision, truncated by int(): the double 0.70 is
\* 7/10 - (4/5) * 2^-54, so the exact product lies n * (4/5) * 2^-54 below
\* 7n/10.  When 7n/10 is no integer the rounded product truncates to
\* 7n div 10.  When n = 10q the product rounds to 7q unless it lies more
\* than half a unit in the last place below it, which is 4q > 2^e for
\* 2^e < 7q <= 2^(e+1); then it rounds to the double below 7q and
\* truncates to 7q - 1 (n = 90, 170, 180, 330, ...).
FloatProductTruncated(n) ==
    IF n > 0 /\ n % 10 = 0 /\ 4 * (n \div 10) > Pow2Below(7 * (n \div 10))
    THEN (7 * n) \div 10 - 1
    ELSE (7 * n) \div 10

\* percentile_70_idx = int(len(sorted_gaps) * 0.70), as an index from 1
Percentile70Index(n) == FloatProductTruncated(n) + 1

\* adaptive_tolerance
AdaptiveTolerance(pool) ==
    LET gaps == GapsFrom(pool, 1)
    IN  IF Len(gaps) >= min_gaps
        THEN LET sorted_gaps == SortInts(gaps)
             IN  Max2(tolerance_low,
                      Min2(tolerance_high,
                           sorted_gaps[Percentile70Index(Len(sorted_gaps))]))
        ELSE tolerance_fallback

\* global_columns: a pooled position farther than the tolerance from the
\* last boundary opens a new boundary
RECURSIVE GlobalColumnsFrom(_, _, _, _)
GlobalColumnsFrom(pool, k, tol, global_columns) ==
    IF k > Len(pool) THEN global_columns
    ELSE IF global_columns = <<>>
            \/ pool[k] - global_columns[Len(global_columns)] > tol
         THEN GlobalColumnsFrom(pool, k + 1, tol, Append(global_columns, pool[k]))
         ELSE GlobalColumnsFrom(pool, k + 1, tol, global_columns)

\* global_columns as they would be if clustered with the lowest tolerance
GlobalColumnsFixedTolerance(pool) ==
    GlobalColumnsFrom(pool, 1, tolerance_low, <<>>)

GlobalColumns(pool) == GlobalColumnsFrom(pool, 1, AdaptiveTolerance(pool), <<>>)

min_avg_col_width == 30
points_per_inch == 72
max_columns_per_inch == 10
letter_width == 612
columns_at_letter_width == 20
min_max_columns == 15

\* adaptive_max_columns as it would be if the quotient were rounded to the
\* nearest integer
AdaptiveMaxColumnsRounded(page_width) ==
    Max2(min_max_columns,
         (2 * columns_at_letter_width * page_width + letter_width)
             \div (2 * letter_width))

\* adaptive_max_columns = max(15, int(20 * (page_width / 612)))
AdaptiveMaxColumns(page_width) ==
    Max2(min_max_columns, (columns_at_letter_width * page_width) \div letter_width)

\* the gate as it would be with a density threshold of 2 columns per inch
ColumnGateDensityTwo(global_columns, page_width) ==
    IF Len(global_columns) > 1
    THEN LET content_width ==
                 global_columns[Len(global_columns)] - global_columns[1]
         IN  IF content_width < min_avg_col_width * Len(global_columns)
             THEN "narrow"
             ELSE IF points_per_inch * Len(global_columns) > 2 * content_width
             THEN "dense"
             ELSE IF Len(global_columns) > AdaptiveMaxColumns(page_width)
             THEN "too_many"
             ELSE "accepted"
    ELSE "single"

\* the gate that rejects the boundaries: "accepted", or the reason of the
\* return None, in the order the code tests them
ColumnGate(global_columns, page_width) ==
    IF Len(global_columns) > 1
    THEN LET content_width ==
                 global_columns[Len(global_columns)] - global_columns[1]
         IN  IF content_width < min_avg_col_width * Len(global_columns)
             THEN "narrow"      \* avg_col_width < 30
             ELSE IF points_per_inch * Len(global_columns)
                        > max_columns_per_inch * content_width
             THEN "dense"       \* columns_per_inch > 10
             ELSE IF Len(global_columns) > AdaptiveMaxColumns(page_width)
             THEN "too_many"    \* over adaptive_max_columns
             ELSE "accepted"
    ELSE "single"               \* Single column, not a form

----------------------------------------------------------------------------
(* Table rows, table regions and the rendered page *)

align_tolerance == 40

Abs(x) == IF x < 0 THEN -x ELSE x

\* the first column a word start is within 40 of, 0 when there is none
RECURSIVE FirstAligned(_, _, _)
FirstAligned(word_x, global_columns, col_idx) ==
    IF col_idx > Len(global_columns) THEN 0
    ELSE IF Abs(word_x - global_columns[col_idx]) < align_tolerance THEN col_idx
    ELSE FirstAligned(word_x, global_columns, col_idx + 1)

\* aligned_columns as they would be if a word counted for every column it
\* is within 40 of
AlignedColumnsEveryMatch(info, global_columns) ==
    {col_idx \in 1..Len(global_columns) :
        \E k \in 1..Len(info.words) :
            Abs(info.words[k].x0 - global_columns[col_idx]) < align_tolerance}

\* aligned_columns of a row
AlignedColumns(info, global_columns) ==
    {FirstAligned(info.words[k].x0, global_columns, 1) :
        k \in 1..Len(info.words)} \ {0}

min_aligned_columns == 2

\* info["is_table_row"], second pass
IsTableRow(info, global_columns) ==
    IF info.is_paragraph THEN FALSE
    ELSE IF info.has_partial_numbering THEN FALSE
    ELSE Cardinality(AlignedColumns(info, global_columns)) >= min_aligned_columns

TableRowFlags(row_info, global_columns) ==
    [k \in 1..Len(row_info) |-> IsTableRow(row_info[k], global_columns)]

\* the end of a run as it would be if a region took two rows at most
RunEndAfterTwo(flags, i) ==
    IF i <= Len(flags) /\ flags[i]
    THEN IF i + 1 <= Len(flags) /\ flags[i + 1] THEN i + 2 ELSE i + 1
    ELSE i

\* the index behind the run of table rows that starts at i
RECURSIVE RunEnd(_, _)
RunEnd(flags, i) ==
    IF i <= Len(flags) /\ flags[i] THEN RunEnd(flags, i + 1) ELSE i

\* table_regions: (start_idx, end_idx), end exclusive, rows counted from 1
RECURSIVE TableRegionsFrom(_, _)
TableRegionsFrom(flags, i) ==
    IF i > Len(flags) THEN <<>>
    ELSE IF flags[i]
         THEN LET end_idx == RunEnd(flags, i)
              IN  <<<<i, end_idx>>>> \o TableRegionsFrom(flags, end_idx)
         ELSE TableRegionsFrom(flags, i + 1)

TableRegions(flags) == TableRegionsFrom(flags, 1)

RECURSIVE SumSeq(_)
SumSeq(xs) == IF xs = <<>> THEN 0 ELSE xs[1] + SumSeq(Tail(xs))

\* total_table_rows
TotalTableRows(table_regions) ==
    SumSeq([k \in 1..Len(table_regions) |->
                table_regions[k][2] - table_regions[k][1]])

\* the gate as it would be if it let every page through
EnoughTableRowsUngated(total_table_rows, num_rows) == TRUE

\* the gate as it would be if a page of exactly 20% table rows failed it
EnoughTableRowsOverFifth(total_table_rows, num_rows) ==
    ~(num_rows > 0 /\ 5 * total_table_rows <= num_rows)

\* total_table_rows / len(row_info) < 0.2
EnoughTableRows(total_table_rows, num_rows) ==
    ~(num_rows > 0 /\ 5 * total_table_rows < num_rows)

cell_margin == 20

\* assigned_col as it would be with the margin added to the next boundary
RECURSIVE AssignedColMarginAdded(_, _, _)
AssignedColMarginAdded(word_x, global_columns, col_idx) ==
    IF col_idx > Len(global_columns) - 1 THEN Len(global_columns)
    ELSE IF word_x < global_columns[col_idx + 1] + cell_margin THEN col_idx
    ELSE AssignedColMarginAdded(word_x, global_columns, col_idx + 1)

\* assigned_col as it would be without the margin
RECURSIVE AssignedColNoMargin(_, _, _)
AssignedColNoMargin(word_x, global_columns, col_idx) ==
    IF col_idx > Len(global_columns) - 1 THEN Len(global_columns)
    ELSE IF word_x < global_columns[col_idx + 1] THEN col_idx
    ELSE AssignedColNoMargin(word_x, global_columns, col_idx + 1)

\* assigned_col of a word: the first column whose right neighbour starts
\* more than 20 behind the word start, else the last column
RECURSIVE AssignedCol(_, _, _)
AssignedCol(word_x, global_columns, col_idx) ==
    IF col_idx > Len(global_columns) - 1 THEN Len(global_columns)
    ELSE IF word_x < global_columns[col_idx + 1] - cell_margin THEN col_idx
    ELSE AssignedCol(word_x, global_columns, col_idx + 1)

\* the cells after the words from index k on are added
RECURSIVE CellsFrom(_, _, _, _)
CellsFrom(row_words, k, global_columns, cells) ==
    IF k > Len(row_words) THEN cells
    ELSE LET c == AssignedCol(row_words[k].x0, global_columns, 1)
             t == row_words[k].text
         IN  CellsFrom(row_words, k + 1, global_columns,
                [cells EXCEPT ![c] =
                    IF cells[c] # <<>> THEN cells[c] \o <<SP>> \o t ELSE t])

\* extract_cells(info)
extract_cells(info, global_columns) ==
    CellsFrom(info.words, 1, global_columns,
              [c \in 1..Len(global_columns) |-> <<>>])

\* table_data as it would be if the rows of a region were taken bottom-up
TableDataReversed(row_info, region, global_columns) ==
    [k \in 1..(region[2] - region[1]) |->
        extract_cells(row_info[region[2] - k], global_columns)]

\* table_data of a region
TableData(row_info, region, global_columns) ==
    [k \in 1..(region[2] - region[1]) |->
        extract_cells(row_info[region[1] + k - 1], global_columns)]

RECURSIVE MaxSeq(_)
MaxSeq(xs) ==
    IF Len(xs) = 1 THEN xs[1] ELSE Max2(xs[1], MaxSeq(Tail(xs)))

min_col_width == 3

\* col_widths as they would be without the minimum of three characters
ColWidthsNoFloor(table_data, num_cols) ==
    [col \in 1..num_cols |->
        MaxSeq([r \in 1..Len(table_data) |-> Len(table_data[r][col])])]

\* col_widths of a region
ColWidths(table_data, num_cols) ==
    [col \in 1..num_cols |->
        Max2(MaxSeq([r \in 1..Len(table_data) |-> Len(table_data[r][col])]),
             min_col_width)]

RECURSIVE Repeat(_, _)
Repeat(c, n) == IF n <= 0 THEN <<>> ELSE <<c>> \o Repeat(c, n - 1)

\* str.ljust(width)
Ljust(s, width) == s \o Repeat(SP, width - Len(s))

PIPE == "|"
DASH == "-"

\* "| " + " | ".join(parts) + " |"
PipeRow(parts) ==
    <<PIPE, SP>> \o Join(parts, <<SP, PIPE, SP>>) \o <<SP, PIPE>>

\* a row of cells, each padded to the width of its column
FormatRow(row, col_widths) ==
    PipeRow([i \in 1..Len(row) |-> Ljust(row[i], col_widths[i])])

\* the separator row as it would be if its loop stopped one column early
FormatSeparatorShort(col_widths, num_cols) ==
    PipeRow([i \in 1..(num_cols - 1) |-> Repeat(DASH, col_widths[i])])

\* the separator row
FormatSeparator(col_widths, num_cols) ==
    PipeRow([i \in 1..num_cols |-> Repeat(DASH, col_widths[i])])

\* the lines of a region as they would be if the data rows began at the
\* header row again
RenderRegionHeaderTwice(row_info, region, global_columns) ==
    LET num_cols == Len(global_columns)
        table_data == TableData(row_info, region, global_columns)
        col_widths == ColWidths(table_data, num_cols)
    IN  IF table_data = <<>> THEN <<>>
        ELSE <<FormatRow(table_data[1], col_widths),
               FormatSeparator(col_widths, num_cols)>>
             \o [k \in 1..Len(table_data) |->
                    FormatRow(table_data[k], col_widths)]

\* the lines of a region: header, separator, data rows
RenderRegion(row_info, region, global_columns) ==
    LET num_cols == Len(global_columns)
        table_data == TableData(row_info, region, global_columns)
        col_widths == ColWidths(table_data, num_cols)
    IN  IF table_data = <<>> THEN <<>>
        ELSE <<FormatRow(table_data[1], col_widths),
               FormatSeparator(col_widths, num_cols)>>
             \o [k \in 1..(Len(table_data) - 1) |->
                    FormatRow(table_data[k + 1], col_widths)]

\* the region that starts at row idx, <<>> when none does
RegionStartingAt(table_regions, idx) ==
    IF \E k \in 1..Len(table_regions) : table_regions[k][1] = idx
    THEN table_regions[CHOOSE k \in 1..Len(table_regions) :
                           /\ table_regions[k][1] = idx
                           /\ \A m \in 1..(k - 1) : table_regions[m][1] # idx]
    ELSE <<>>

\* in_table: idx lies inside a region, behind its start
InTable(table_regions, idx) ==
    \E k \in 1..Len(table_regions) :
        table_regions[k][1] < idx /\ idx < table_regions[k][2]

\* the output loop from row idx on
RECURSIVE ResultLinesFrom(_, _, _, _)
ResultLinesFrom(row_info, table_regions, global_columns, idx) ==
    IF idx > Len(row_info) THEN <<>>
    ELSE LET table_region == RegionStartingAt(table_regions, idx)
         IN  IF table_region # <<>>
             THEN RenderRegion(row_info, table_region, global_columns)
                  \o ResultLinesFrom(row_info, table_regions, global_columns,
                                     table_region[2])
             ELSE (IF ~InTable(table_regions, idx)
                   THEN <<row_info[idx].text>> ELSE <<>>)
                  \o ResultLinesFrom(row_info, table_regions, global_columns,
                                     idx + 1)

\* what the page function computes for the words of a page: every
\* intermediate value, and the step at which it returns
PageAnalysis(words, page_width) ==
    LET row_info == IF words = <<>> THEN <<>> ELSE RowInfos(words, page_width)
        pool == AllTableXPositions(row_info)
        global_columns == IF pool = <<>> THEN <<>> ELSE GlobalColumns(pool)
        gate == IF words = <<>> THEN "no_words"
                ELSE IF pool = <<>> THEN "no_pool"
                ELSE ColumnGate(global_columns, page_width)
        flags == IF gate = "accepted"
                 THEN TableRowFlags(row_info, global_columns) ELSE <<>>
        table_regions == TableRegions(flags)
        exit == IF gate # "accepted" THEN gate
                ELSE IF ~EnoughTableRows(TotalTableRows(table_regions),
                                         Len(row_info))
                THEN "few_table_rows"
                ELSE "form"
    IN  [row_info |-> row_info,
         pool |-> pool,
         adaptive_tolerance |->
             IF pool = <<>> THEN 0 ELSE AdaptiveTolerance(pool),
         global_columns |-> global_columns,
         is_table_row |-> flags,
         table_regions |-> table_regions,
         exit |-> exit,
         tables |->
             IF exit = "form"
             THEN [k \in 1..Len(table_regions) |->
                      [cells |-> TableData(row_info, table_regions[k],
                                           global_columns),
                       lines |-> RenderRegion(row_info, table_regions[k],
                                              global_columns)]]
             ELSE <<>>,
         result_lines |->
             IF exit = "form"
             THEN ResultLinesFrom(row_info, table_regions, global_columns, 1)
             ELSE <<>>]

\* the value returned at the exit the analysis ends with:
\* "\n".join(result_lines), or None
ReturnValue(a) ==
    IF a.exit = "form" THEN Join(a.result_lines, <<NL>>) ELSE None

\* _extract_form_content_from_words(page), given page.extract_words()
extract_form_content_from_words(words, page_width) ==
    ReturnValue(PageAnalysis(words, page_width))

----------------------------------------------------------------------------
(* The variables of a specification that is not the one running *)

PageOff ==
    /\ pgWidth = 0
    /\ pgWords = <<>>
    /\ pgSlot = 0
    /\ pgOut = <<>>
    /\ ppc = "off"

MergeOff ==
    /\ text = <<>>
    /\ passOut = <<>>
    /\ mpc = "off"

NoDoc == [opens |-> FALSE, pages |-> <<>>, linear |-> <<>>]

\* the variables of a call of convert when no call is running
NoCall ==
    /\ doc = NoDoc
    /\ stream_reads = 0
    /\ pdf_pos = 0
    /\ page_idx = 0
    /\ form_pages = 0
    /\ plain_pages = 0
    /\ markdown_chunks = <<>>
    /\ page_log = <<>>
    /\ markdown = <<>>
    /\ markdown_from = "none"
    /\ linear_from = <<>>
    /\ layout_calls = 0
    /\ handled = 0
    /\ failed_at = "nothing"
    /\ exception = "none"

ConvOff ==
    /\ form_content = <<>>
    /\ dependency_exc_info = "None"
    /\ accepted = FALSE
    /\ earlier_calls = FALSE
    /\ cpc = "off"
    /\ NoCall

----------------------------------------------------------------------------
(* SpecPage: the page function on pages laid out row by row               *)
(*                                                                         *)
(* A page is laid out slot by slot; each slot is left empty or takes one   *)
(* row of words from RowKinds at the slot's top coordinate.  The slots     *)
(* are not in reading order, and a "Label" sits 8 units above the line of  *)
(* its slot, which puts it into the y bucket of the slot 10 units higher   *)
(* up the page when that slot is taken too.                                *)

\* the top coordinate of each slot
SlotTop == <<30, 10, 41, 20, 52, 61, 73>>

LongCell == Repeat("x", 21)

Word(t, x, top) == [text |-> t, x0 |-> x, x1 |-> x + 5 * Len(t), top |-> top]

RowKinds == {"A", "B", "C", "Long", "Num", "Narrow", "Label"}

\* rows that fill the page: n one-letter words, 64 apart, from x0 = offset
WideRowKinds == {"W1", "W2", "W3", "W4"}

WideRow(offset, n, top) ==
    [k \in 1..n |-> Word(<<"w">>, offset + 64 * (k - 1), top)]

\* the words of a row of each kind at a top coordinate, as the layout
\* library lists them
RowOf(kind, top) ==
    CASE kind = "A" ->
            <<Word(<<"a", "b">>, 0, top), Word(<<"c">>, 52, top),
              Word(<<"d", "e">>, 104, top)>>
      [] kind = "B" ->
            <<Word(<<"z">>, 78, top), Word(<<"x", PIPE, "y">>, 26, top),
              Word(<<"w">>, 130, top)>>
      [] kind = "C" ->
            <<Word(<<"p">>, 6, top), Word(<<"q">>, 58, top),
              Word(<<"r", SP, "s", "t">>, 110, top)>>
      [] kind = "Long" ->
            <<Word(LongCell, 0, top), Word(LongCell, 200, top),
              Word(LongCell, 400, top)>>
      [] kind = "Num" ->
            <<Word(<<".", "1">>, 0, top), Word(<<"i">>, 52, top),
              Word(<<"j">>, 104, top)>>
      [] kind = "Narrow" ->
            <<Word(<<"n">>, 0, top), Word(<<"m">>, 40, top),
              Word(<<"k">>, 80, top)>>
      [] kind = "Label" ->
            <<Word(<<"T">>, 26, top - 8)>>
      [] kind = "W1" -> WideRow(0, 8, top)
      [] kind = "W2" -> WideRow(34, 8, top)
      [] kind = "W3" -> WideRow(6, 8, top)
      [] kind = "W4" -> WideRow(40, 7, top)

PageWidths == {612}

PageInit ==
    /\ pgWidth \in PageWidths
    /\ pgWords = <<>>
    /\ pgSlot = 1
    /\ pgOut = <<>>
    /\ ppc = "layout"
    /\ MergeOff
    /\ ConvOff

\* the next slot takes a row of words
PlaceRow(kind) ==
    /\ ppc = "layout"
    /\ pgSlot <= MaxSlots
    /\ pgWords' = pgWords \o RowOf(kind, SlotTop[pgSlot])
    /\ pgSlot' = pgSlot + 1
    /\ UNCHANGED <<pgWidth, pgOut, ppc>>
    /\ UNCHANGED mergeVars
    /\ UNCHANGED convVars

\* the next slot stays empty
SkipSlot ==
    /\ ppc = "layout"
    /\ pgSlot <= MaxSlots
    /\ pgSlot' = pgSlot + 1
    /\ UNCHANGED <<pgWidth, pgWords, pgOut, ppc>>
    /\ UNCHANGED mergeVars
    /\ UNCHANGED convVars

\* _extract_form_content_from_words(page)
ExtractPage ==
    /\ ppc = "layout"
    /\ LET a == PageAnalysis(pgWords, pgWidth)
       IN  pgOut' = [analysis |-> a, content |-> ReturnValue(a)]
    /\ ppc' = "extracted"
    /\ UNCHANGED <<pgWidth, pgWords, pgSlot>>
    /\ UNCHANGED mergeVars
    /\ UNCHANGED convVars

PageNext ==
    \/ \E kind \in RowKinds : PlaceRow(kind)
    \/ SkipSlot
    \/ ExtractPage

SpecPage == PageInit /\ [][PageNext]_vars

----------------------------------------------------------------------------
(* SpecWide: the page function on pages of several widths, filled with     *)
(* rows of many columns                                                    *)

\* 20 * page_width / 612 is 15.98 and 20 for these
WidePageWidths == {489, 612}

WideInit ==
    /\ pgWidth \in WidePageWidths
    /\ pgWords = <<>>
    /\ pgSlot = 1
    /\ pgOut = <<>>
    /\ ppc = "layout"
    /\ MergeOff
    /\ ConvOff

WideNext ==
    \/ \E kind \in WideRowKinds : PlaceRow(kind)
    \/ SkipSlot
    \/ ExtractPage

SpecWide == WideInit /\ [][WideNext]_vars

----------------------------------------------------------------------------
(* SpecGate: the page function on longer pages of few kinds of rows, on    *)
(* which the table rows are a small share of the rows                      *)

\* a table row, a numbering row that is pooled and is no table row, and a
\* paragraph row
GateRowKinds == {"A", "Num", "Long"}

GateInit ==
    /\ pgWidth \in PageWidths
    /\ pgWords = <<>>
    /\ pgSlot = 1
    /\ pgOut = <<>>
    /\ ppc = "layout"
    /\ MergeOff
    /\ ConvOff

\* the next slot takes a row of words
PlaceGateRow(kind) ==
    /\ ppc = "layout"
    /\ pgSlot <= MaxGateSlots
    /\ pgWords' = pgWords \o RowOf(kind, SlotTop[pgSlot])
    /\ pgSlot' = pgSlot + 1
    /\ UNCHANGED <<pgWidth, pgOut, ppc>>
    /\ UNCHANGED mergeVars
    /\ UNCHANGED convVars

GateNext ==
    \/ \E kind \in GateRowKinds : PlaceGateRow(kind)
    \/ ExtractPage

SpecGate == GateInit /\ [][GateNext]_vars

----------------------------------------------------------------------------
(* SpecTol: the page function on a very wide page of four rows whose words *)
(* interleave, so that the pool holds about ninety positions               *)

\* position i of the page: 63 gaps of 26, gaps of 40 behind them
TolPosition(i) == IF i <= 63 THEN 26 * i ELSE 26 * 63 + 40 * (i - 63)

\* the row of a slot: every fourth position, n of them
TolRow(slot, n, top) ==
    [k \in 1..n |->
        Word(<<"w">>, TolPosition(((slot - 1) % 4) + 4 * (k - 1)), top)]

\* the numbers of words a row can have
TolRowLengths == {22, 23}

TolPageWidths == {2800}

TolInit ==
    /\ pgWidth \in TolPageWidths
    /\ pgWords = <<>>
    /\ pgSlot = 1
    /\ pgOut = <<>>
    /\ ppc = "layout"
    /\ MergeOff
    /\ ConvOff

\* the next slot takes its row, n words long
PlaceTolRow(n) ==
    /\ ppc = "layout"
    /\ pgSlot <= MaxSlots
    /\ pgWords' = pgWords \o TolRow(pgSlot, n, SlotTop[pgSlot])
    /\ pgSlot' = pgSlot + 1
    /\ UNCHANGED <<pgWidth, pgOut, ppc>>
    /\ UNCHANGED mergeVars
    /\ UNCHANGED convVars

TolNext ==
    \/ \E n \in TolRowLengths : PlaceTolRow(n)
    \/ SkipSlot
    \/ ExtractPage

SpecTol == TolInit /\ [][TolNext]_vars

----------------------------------------------------------------------------
(* PdfConverter: the documents it is given                                 *)
(*                                                                         *)
(* A document is what the two libraries answer for its bytes:              *)
(* [opens, pages, linear].  opens: pdfplumber.open() succeeds; pages: the  *)
(* kinds of its pages, in order; linear: the text                          *)
(* pdfminer.high_level.extract_text() returns for the bytes, or Raises.    *)

\* the linear extractor raises on these bytes
Raises == <<"raises">>

LinearOutcomes == {<<>>, <<".", "1", NL, "a">>, Raises}

PageKinds == {"blank", "form", "rejected", "broken", "broken_text"}

\* what the layout library answers for a page of each kind
PageOfKind(kind) ==
    CASE kind = "blank" ->          \* a scanned page: no text layer
            [width |-> 612, words |-> <<>>, text |-> <<>>,
             words_raise |-> FALSE, text_raise |-> FALSE]
      [] kind = "form" ->           \* a heading over two table rows
            [width |-> 612,
             words |-> RowOf("A", 30) \o RowOf("Label", 18) \o RowOf("A", 20),
             text |-> <<"T", NL, "a", "b", SP, "c", SP, "d", "e">>,
             words_raise |-> FALSE, text_raise |-> FALSE]
      [] kind = "rejected" ->       \* columns too narrow for a form
            [width |-> 612,
             words |-> RowOf("A", 10) \o RowOf("B", 20) \o RowOf("C", 30),
             text |-> <<SP, "a", "b", NL, ".", "1", NL, "q", NL>>,
             words_raise |-> FALSE, text_raise |-> FALSE]
      [] kind = "broken" ->         \* page.extract_words() raises
            [width |-> 612, words |-> <<>>, text |-> <<>>,
             words_raise |-> TRUE, text_raise |-> FALSE]
      [] kind = "broken_text" ->    \* no words, and page.extract_text() raises
            [width |-> 612, words |-> <<>>, text |-> <<>>,
             words_raise |-> FALSE, text_raise |-> TRUE]

PageSeqs == UNION {[1..n -> PageKinds] : n \in 0..MaxPages}

\* a document that does not open has no pages to speak of
Docs ==
    {[opens |-> TRUE, pages |-> ps, linear |-> l] :
        ps \in PageSeqs, l \in LinearOutcomes}
    \cup {[opens |-> FALSE, pages |-> <<>>, linear |-> l] : l \in LinearOutcomes}

----------------------------------------------------------------------------
(* PdfConverter.accepts *)

ACCEPTED_MIME_TYPE_PREFIXES == {<<"application/pdf">>, <<"application/x-pdf">>}
ACCEPTED_FILE_EXTENSIONS == {".pdf"}

\* str.lower() on the extensions and the parts of mime types used here
Lower(t) ==
    CASE t = ".PDF" -> ".pdf"
      [] t = "APPLICATION/PDF" -> "application/pdf"
      [] OTHER -> t

\* the extensions and mime types of stream_info; a mime type is a sequence
\* of parts, its type and then its parameters; None is "" and <<>>
Extensions == {"", ".pdf", ".PDF", ".txt"}
MimeTypes == {<<>>, <<"application/pdf">>, <<"APPLICATION/PDF", ";v=1">>,
              <<"application/x-pdf">>, <<"text/plain">>}

\* mimetype.startswith(prefix)
StartsWith(m, prefix) ==
    Len(m) >= Len(prefix) /\ SubSeq(m, 1, Len(prefix)) = prefix

AcceptsResult(extension, mimetype) ==
    LET ext == Lower(extension)
        mime == [k \in 1..Len(mimetype) |-> Lower(mimetype[k])]
    IN  IF ext \in ACCEPTED_FILE_EXTENSIONS THEN TRUE
        ELSE \E prefix \in ACCEPTED_MIME_TYPE_PREFIXES : StartsWith(mime, prefix)

----------------------------------------------------------------------------
(* PdfConverter.convert, step by step *)

\* the stream left where the layout library stopped reading it
NoSeek(pos) == pos

\* pdf_bytes.seek(0)
Seek0(pos) == 0

\* the decision as it would be if a tie went to the linear extractor
FallbackWantedOnTie(plain, form) == plain >= form /\ plain > 0

\* if plain_pages > form_pages and plain_pages > 0
FallbackWanted(plain, form) == plain > form /\ plain > 0

\* what a plain page would add if its text were appended as it is
PlainChunkVerbatim(page_text) ==
    IF page_text # <<>> /\ Strip(page_text) # <<>>
    THEN <<page_text>> ELSE <<>>

\* what a plain page adds to markdown_chunks: its text stripped, if any
PlainChunk(page_text) ==
    IF page_text # <<>> /\ Strip(page_text) # <<>>
    THEN <<Strip(page_text)>> ELSE <<>>

\* what a form page adds to markdown_chunks
FormChunk(page_content) ==
    IF Strip(page_content) # <<>> THEN <<page_content>> ELSE <<>>

\* "\n\n".join(markdown_chunks).strip()
JoinChunks(chunks) == Strip(Join(chunks, <<NL, NL>>))

\* if not markdown
IsEmpty(md) == md = <<>>

\* the module is imported: the import of the libraries is tried, and an
\* ImportError is kept in _dependency_exc_info
ImportModule(installed) ==
    /\ cpc = "unloaded"
    /\ dependency_exc_info' = IF installed THEN "None" ELSE "ImportError"
    /\ cpc' = "idle"
    /\ UNCHANGED <<form_content, accepted, earlier_calls>>
    /\ UNCHANGED callVars
    /\ UNCHANGED mergeVars
    /\ UNCHANGED pageVars

\* accepts(file_stream, stream_info)
Accepts(extension, mimetype) ==
    /\ cpc = "idle"
    /\ accepted' = AcceptsResult(extension, mimetype)
    /\ cpc' = "accepts_returned"
    /\ UNCHANGED <<form_content, dependency_exc_info, earlier_calls>>
    /\ UNCHANGED callVars
    /\ UNCHANGED mergeVars
    /\ UNCHANGED pageVars

\* the caller of accepts has its answer
AcceptsReturn ==
    /\ cpc = "accepts_returned"
    /\ accepted' = FALSE
    /\ cpc' = "idle"
    /\ UNCHANGED <<form_content, dependency_exc_info, earlier_calls>>
    /\ UNCHANGED callVars
    /\ UNCHANGED mergeVars
    /\ UNCHANGED pageVars

\* convert as it would be if the stream were read before the dependency check
ConvertCallReadingFirst ==
    /\ cpc = "idle"
    /\ stream_reads' = stream_reads + 1
    /\ IF dependency_exc_info # "None"
       THEN /\ cpc' = "raised"
            /\ exception' = "MissingDependencyException"
            /\ UNCHANGED <<doc, pdf_pos, markdown_chunks>>
       ELSE /\ cpc' = "open"
            /\ \E d \in Docs : doc' = d
            /\ pdf_pos' = 0
            /\ markdown_chunks' = <<>>
            /\ UNCHANGED exception
    /\ UNCHANGED <<form_content, dependency_exc_info, accepted,
                   earlier_calls, page_idx,
                   form_pages, plain_pages, page_log, markdown, markdown_from,
                   linear_from, layout_calls, handled, failed_at>>
    /\ UNCHANGED mergeVars
    /\ UNCHANGED pageVars

\* convert is called: the dependency check, then
\* pdf_bytes = io.BytesIO(file_stream.read()), the stream holding the bytes
\* of some document d
ConvertCall ==
    /\ cpc = "idle"
    /\ IF dependency_exc_info # "None"
       THEN /\ cpc' = "raised"
            /\ exception' = "MissingDependencyException"
            /\ UNCHANGED <<doc, stream_reads, pdf_pos, markdown_chunks>>
       ELSE /\ cpc' = "open"
            /\ \E d \in Docs : doc' = d
            /\ stream_reads' = stream_reads + 1
            /\ pdf_pos' = 0
            /\ markdown_chunks' = <<>>
            /\ UNCHANGED exception
    /\ UNCHANGED <<form_content, dependency_exc_info, accepted,
                   earlier_calls, page_idx,
                   form_pages, plain_pages, page_log, markdown, markdown_from,
                   linear_from, layout_calls, handled, failed_at>>
    /\ UNCHANGED mergeVars
    /\ UNCHANGED pageVars

\* the try block is entered: the tallies are zeroed and
\* pdfplumber.open(pdf_bytes) reads the bytes, or raises
OpenPdf ==
    /\ cpc = "open"
    /\ form_pages' = 0
    /\ plain_pages' = 0
    /\ layout_calls' = layout_calls + 1
    /\ pdf_pos' = 1
    /\ IF doc.opens
       THEN /\ cpc' = "pages"
            /\ page_idx' = 1
            /\ UNCHANGED failed_at
       ELSE /\ cpc' = "except"
            /\ failed_at' = "open"
            /\ UNCHANGED page_idx
    /\ UNCHANGED <<form_content, dependency_exc_info, accepted,
                   earlier_calls, doc,
                   stream_reads, markdown_chunks, page_log, markdown,
                   markdown_from, linear_from, handled, exception>>
    /\ UNCHANGED mergeVars
    /\ UNCHANGED pageVars

\* a failing page as it would be handled by a try block around each page:
\* the page counts as plain, adds nothing, and the loop goes on
PageRaisesCaughtPerPage(what, plain, calls) ==
    /\ cpc' = "pages"
    /\ failed_at' = what
    /\ plain_pages' = IF what = "words" THEN plain + 1 ELSE plain
    /\ layout_calls' = layout_calls + calls
    /\ page_log' = Append(page_log, [exit |-> "raised", chunk |-> <<>>])
    /\ page_idx' = page_idx + 1
    /\ UNCHANGED <<form_pages, markdown_chunks>>

\* a call of the layout library raises while a page is processed: the
\* exception leaves the loop and the with block for the except clause;
\* plain is plain_pages as the statements before the call left it
PageRaises(what, plain, calls) ==
    /\ cpc' = "except"
    /\ failed_at' = what
    /\ plain_pages' = plain
    /\ layout_calls' = layout_calls + calls
    /\ UNCHANGED <<page_idx, form_pages, markdown_chunks, page_log>>

\* a page processed as it would be if form pages were not tallied
PageDoneFormUntallied(exit, plain, form, chunk, calls) ==
    /\ cpc' = "pages"
    /\ plain_pages' = plain
    /\ form_pages' = form_pages
    /\ markdown_chunks' = markdown_chunks \o chunk
    /\ page_log' = Append(page_log, [exit |-> exit, chunk |-> chunk])
    /\ page_idx' = page_idx + 1
    /\ layout_calls' = layout_calls + calls
    /\ UNCHANGED failed_at

\* a page is processed and adds chunk to markdown_chunks
PageDone(exit, plain, form, chunk, calls) ==
    /\ cpc' = "pages"
    /\ plain_pages' = plain
    /\ form_pages' = form
    /\ markdown_chunks' = markdown_chunks \o chunk
    /\ page_log' = Append(page_log, [exit |-> exit, chunk |-> chunk])
    /\ page_idx' = page_idx + 1
    /\ layout_calls' = layout_calls + calls
    /\ UNCHANGED failed_at

\* _extract_form_content_from_words(words, page.width) on the words of each
\* kind of page whose extract_words() answers
AnalysisOfKind ==
    [kind \in PageKinds |->
        LET page == PageOfKind(kind)
            a == PageAnalysis(page.words, page.width)
        IN  [exit |-> a.exit, content |-> ReturnValue(a)]]

\* one turn of the loop over pdf.pages
ProcessPage ==
    /\ cpc = "pages"
    /\ page_idx <= Len(doc.pages)
    /\ LET page == PageOfKind(doc.pages[page_idx])
       IN  IF page.words_raise
           THEN PageRaises("words", plain_pages, 1)
           ELSE LET a == form_content[doc.pages[page_idx]]
                    page_content == a.content
                IN  IF page_content = None
                    THEN IF page.text_raise
                         THEN PageRaises("text", plain_pages + 1, 2)
                         ELSE PageDone(a.exit, plain_pages + 1, form_pages,
                                       PlainChunk(page.text), 2)
                    ELSE PageDone(a.exit, plain_pages, form_pages + 1,
                                  FormChunk(page_content), 1)
    /\ UNCHANGED <<form_content, dependency_exc_info, accepted,
                   earlier_calls, doc,
                   stream_reads, pdf_pos, markdown, markdown_from,
                   linear_from, handled, exception>>
    /\ UNCHANGED mergeVars
    /\ UNCHANGED pageVars

\* pdfminer.high_level.extract_text(pdf_bytes) behind pdf_bytes.seek(0),
\* inside the try block (raised_to "except") or outside (raised_to "raised")
LinearExtract(raised_to) ==
    /\ linear_from' = Append(linear_from, Seek0(pdf_pos))
    /\ pdf_pos' = 1
    /\ IF doc.linear = Raises
       THEN /\ cpc' = raised_to
            /\ IF raised_to = "except"
               THEN failed_at' = "linear" /\ UNCHANGED exception
               ELSE exception' = "ExtractTextError" /\ UNCHANGED failed_at
            /\ UNCHANGED <<markdown, markdown_from>>
       ELSE /\ markdown' = doc.linear
            /\ markdown_from' = "linear"
            /\ cpc' = IF raised_to = "except" THEN "empty"
                      ELSE IF cpc = "except" THEN "empty" ELSE "post"
            /\ UNCHANGED <<failed_at, exception>>

\* every page is tallied: the document-level decision
Decide ==
    /\ cpc = "pages"
    /\ page_idx > Len(doc.pages)
    /\ IF FallbackWanted(plain_pages, form_pages)
       THEN LinearExtract("except")
       ELSE /\ markdown' = JoinChunks(markdown_chunks)
            /\ markdown_from' = "chunks"
            /\ cpc' = "empty"
            /\ UNCHANGED <<linear_from, pdf_pos, failed_at, exception>>
    /\ UNCHANGED <<form_content, dependency_exc_info, accepted,
                   earlier_calls, doc,
                   stream_reads, page_idx, form_pages, plain_pages,
                   markdown_chunks, page_log, layout_calls, handled>>
    /\ UNCHANGED mergeVars
    /\ UNCHANGED pageVars

\* except Exception: the fallback if pdfplumber fails
HandleException ==
    /\ cpc = "except"
    /\ handled' = handled + 1
    /\ LinearExtract("raised")
    /\ UNCHANGED <<form_content, dependency_exc_info, accepted,
                   earlier_calls, doc,
                   stream_reads, page_idx, form_pages, plain_pages,
                   markdown_chunks, page_log, layout_calls>>
    /\ UNCHANGED mergeVars
    /\ UNCHANGED pageVars

\* the fallback if markdown is still empty
EmptyFallback ==
    /\ cpc = "empty"
    /\ IF IsEmpty(markdown)
       THEN LinearExtract("raised")
       ELSE /\ cpc' = "post"
            /\ UNCHANGED <<markdown, markdown_from, linear_from, pdf_pos,
                           failed_at, exception>>
    /\ UNCHANGED <<form_content, dependency_exc_info, accepted,
                   earlier_calls, doc,
                   stream_reads, page_idx, form_pages, plain_pages,
                   markdown_chunks, page_log, layout_calls, handled>>
    /\ UNCHANGED mergeVars
    /\ UNCHANGED pageVars

\* the post-processor, and the result is returned
PostProcess ==
    /\ cpc = "post"
    /\ markdown' = merge_partial_numbering_lines(markdown)
    /\ cpc' = "returned"
    /\ UNCHANGED <<form_content, dependency_exc_info, accepted,
                   earlier_calls, doc,
                   stream_reads, pdf_pos, page_idx, form_pages, plain_pages,
                   markdown_chunks, page_log, markdown_from, linear_from,
                   layout_calls, handled, failed_at, exception>>
    /\ UNCHANGED mergeVars
    /\ UNCHANGED pageVars

\* the caller has the result or the exception; the locals of the call go
CallEnds ==
    /\ cpc \in {"returned", "raised"}
    /\ cpc' = "idle"
    /\ earlier_calls' = TRUE
    /\ doc' = NoDoc
    /\ stream_reads' = 0
    /\ pdf_pos' = 0
    /\ page_idx' = 0
    /\ form_pages' = 0
    /\ plain_pages' = 0
    /\ markdown_chunks' = <<>>
    /\ page_log' = <<>>
    /\ markdown' = <<>>
    /\ markdown_from' = "none"
    /\ linear_from' = <<>>
    /\ layout_calls' = 0
    /\ handled' = 0
    /\ failed_at' = "nothing"
    /\ exception' = "none"
    /\ UNCHANGED <<form_content, dependency_exc_info, accepted>>
    /\ UNCHANGED mergeVars
    /\ UNCHANGED pageVars

Init ==
    /\ form_content = AnalysisOfKind
    /\ dependency_exc_info = "None"
    /\ accepted = FALSE
    /\ earlier_calls = FALSE
    /\ cpc = "unloaded"
    /\ NoCall
    /\ MergeOff
    /\ PageOff

Next ==
    \/ \E installed \in BOOLEAN : ImportModule(installed)
    \/ \E e \in Extensions, m \in MimeTypes : Accepts(e, m)
    \/ AcceptsReturn
    \/ ConvertCall
    \/ OpenPdf
    \/ ProcessPage
    \/ Decide
    \/ HandleException
    \/ EmptyFallback
    \/ PostProcess
    \/ CallEnds

Spec == Init /\ [][Next]_vars

----------------------------------------------------------------------------
(* SpecMerge: the post-processor on typed texts *)

MergeInit ==
    /\ text = <<>>
    /\ passOut = <<>>
    /\ mpc = "typing"
    /\ PageOff
    /\ ConvOff

\* one more character of the input text
TypeChar(c) ==
    /\ mpc = "typing"
    /\ Len(text) < MaxTextLen
    /\ text' = Append(text, c)
    /\ UNCHANGED <<passOut, mpc>>
    /\ UNCHANGED pageVars
    /\ UNCHANGED convVars

\* the post-processor is run on the text
RunMerge ==
    /\ mpc = "typing"
    /\ passOut' = <<merge_partial_numbering_lines(text)>>
    /\ mpc' = "merged"
    /\ UNCHANGED text
    /\ UNCHANGED pageVars
    /\ UNCHANGED convVars

\* the post-processor is run on its own output
RunMergeAgain ==
    /\ mpc = "merged"
    /\ Len(passOut) = 1
    /\ passOut' = Append(passOut, merge_partial_numbering_lines(passOut[1]))
    /\ UNCHANGED <<text, mpc>>
    /\ UNCHANGED pageVars
    /\ UNCHANGED convVars

MergeNext ==
    \/ \E c \in MergeAlphabet : TypeChar(c)
    \/ RunMerge
    \/ RunMergeAgain

SpecMerge == MergeInit /\ [][MergeNext]_vars

----------------------------------------------------------------------------
(* Properties of PdfConverter.convert (Spec) *)

\* a call of convert is over: its result or its exception is with the caller
Finished == cpc \in {"returned", "raised"}

\* the layout library raised in this call
LayoutFailed == failed_at \in {"open", "words", "text"}

\* the layout library raised while a page was processed
PageFailed == failed_at \in {"words", "text"}

\* C1 (as claimed): of a call that returned without a failure, the output
\* is the whole-document linear extraction if and only if
\* plain_pages > form_pages and plain_pages > 0, and it is built from the
\* per-page contributions otherwise.
C1_FallbackIffMorePlainPages ==
    (cpc = "returned" /\ failed_at = "nothing") =>
        /\ (markdown_from = "linear")
               <=> (plain_pages > form_pages /\ plain_pages > 0)
        /\ (markdown_from = "chunks")
               <=> ~(plain_pages > form_pages /\ plain_pages > 0)

\* C1 (amended): of a call that returned without a failure, the output is
\* the whole-document linear extraction if and only if
\* plain_pages > form_pages and plain_pages > 0, or the document has no
\* pages (nothing was contributed, and the fallback for an empty result
\* takes the linear extraction); otherwise the output is the post-processed
\* join of the per-page contributions.
C1_FallbackIffMorePlainPagesOrNoPages ==
    (cpc = "returned" /\ failed_at = "nothing") =>
        /\ (markdown_from = "linear")
               <=> \/ (plain_pages > form_pages /\ plain_pages > 0)
                   \/ Len(doc.pages) = 0
        /\ markdown_from \in {"linear", "chunks"}
        /\ markdown_from = "linear" =>
               markdown = merge_partial_numbering_lines(doc.linear)
        /\ markdown_from = "chunks" =>
               /\ markdown_chunks # <<>>
               /\ markdown = merge_partial_numbering_lines(
                                 Strip(Join(markdown_chunks, <<NL, NL>>)))

\* three plain pages and two form pages: the contributions are collected
\* and the document is extracted again as a whole
C1_Witness ==
    /\ cpc = "returned"
    /\ failed_at = "nothing"
    /\ plain_pages = 3
    /\ form_pages = 2
    /\ markdown_chunks # <<>>
    /\ markdown_from = "linear"
    /\ markdown # <<>>

\* C2 (as claimed): a page on which the layout library raises is handled on
\* its own: the loop goes on to the remaining pages, the contributions of
\* the earlier pages are kept, and the document is not aborted.
C2_PageFailureCaughtPerPage ==
    PageFailed =>
        /\ cpc # "except"
        /\ handled = 0
        /\ cpc = "returned" => page_idx > Len(doc.pages)

\* C2 (amended): a page on which the layout library raises is not handled
\* on its own: the exception ends the loop at that page, the remaining
\* pages are not processed, the document-level handler runs, and the
\* output is the post-processed whole-document linear extraction, whatever
\* the earlier pages contributed; convert raises when the linear extractor
\* raises too.
C2_PageFailureAbortsToLinear ==
    PageFailed =>
        /\ page_idx <= Len(doc.pages)
        /\ Len(page_log) = page_idx - 1
        /\ cpc \in {"except", "empty", "post", "returned", "raised"}
        /\ cpc # "except" => handled = 1
        /\ cpc = "returned" =>
               /\ markdown_from = "linear"
               /\ markdown = merge_partial_numbering_lines(doc.linear)
        /\ cpc = "raised" => doc.linear = Raises

\* the second page of three or more fails after the first has contributed
C2_Witness ==
    /\ PageFailed
    /\ cpc = "returned"
    /\ page_idx = 2
    /\ Len(doc.pages) >= 3
    /\ markdown_chunks # <<>>
    /\ markdown # <<>>

\* C3: with the libraries installed, no call of convert ends in an
\* exception: MissingDependencyException is the only exception a caller
\* ever sees.
C3_NoFailureReachesCaller ==
    /\ dependency_exc_info = "None" => cpc # "raised"
    /\ cpc = "raised" => exception = "MissingDependencyException"

\* C4: when the layout library raised while the document was opened or a
\* page was processed, the finished call went through the document-level
\* handler exactly once, every linear extraction read the bytes from
\* position 0, and the result is the post-processed linear extraction of
\* the document, whatever the pages contributed and tallied (the call
\* raises when the linear extractor raises).
C4_LayoutFailureHandledOnce ==
    (LayoutFailed /\ Finished) =>
        /\ handled = 1
        /\ Len(linear_from) >= 1
        /\ \A k \in 1..Len(linear_from) : linear_from[k] = 0
        /\ IF doc.linear = Raises
           THEN cpc = "raised"
           ELSE /\ cpc = "returned"
                /\ markdown_from = "linear"
                /\ markdown = merge_partial_numbering_lines(doc.linear)

\* a later page fails when a form page has contributed and been tallied
C4_Witness ==
    /\ LayoutFailed
    /\ cpc = "returned"
    /\ form_pages >= 1
    /\ plain_pages = 0
    /\ markdown_chunks # <<>>
    /\ markdown # <<>>

\* a page without words and without text
PageBlank(kind) ==
    LET page == PageOfKind(kind)
    IN  /\ ~page.words_raise /\ page.words = <<>>
        /\ ~page.text_raise /\ page.text = <<>>

\* a document without a text layer
NoTextLayer(d) ==
    /\ d.opens
    /\ \A k \in 1..Len(d.pages) : PageBlank(d.pages[k])
    /\ d.linear = <<>>

\* C5: a call of convert on a document without a text layer does not
\* raise, and its markdown is the empty string at every step and when it
\* returns.
C5_EmptyStaysEmpty ==
    NoTextLayer(doc) =>
        /\ cpc # "raised"
        /\ cpc # "except"
        /\ exception = "none"
        /\ markdown = <<>>

\* a scanned document of two or more pages was converted
C5_Witness ==
    /\ NoTextLayer(doc)
    /\ Len(doc.pages) >= 2
    /\ cpc = "returned"
    /\ plain_pages = Len(doc.pages)

ColumnModelRejections == {"single", "narrow", "dense", "too_many"}

\* C7 (as claimed): a page whose column model is rejected contributes its
\* plain text as the layout library gave it, character for character.
C7_RejectedPageVerbatim ==
    \A k \in 1..Len(page_log) :
        page_log[k].exit \in ColumnModelRejections =>
            page_log[k].chunk = <<PageOfKind(doc.pages[k]).text>>

\* C7 (amended): a page whose column model is rejected contributes its
\* plain text with the whitespace at both ends removed, and nothing when
\* that leaves nothing.
C7_RejectedPageStripped ==
    \A k \in 1..Len(page_log) :
        page_log[k].exit \in ColumnModelRejections =>
            LET page_text == PageOfKind(doc.pages[k]).text
            IN  /\ plain_pages >= 1
                /\ page_log[k].chunk =
                       IF Strip(page_text) = <<>> THEN <<>>
                       ELSE <<Strip(page_text)>>

\* a rejected page has contributed to a result built from the pages
C7_Witness ==
    /\ cpc = "returned"
    /\ markdown_from = "chunks"
    /\ \E k \in 1..Len(page_log) :
           /\ page_log[k].exit \in ColumnModelRejections
           /\ page_log[k].chunk # <<>>

----------------------------------------------------------------------------
(* Properties of _extract_form_content_from_words (SpecPage) *)

\* the number of maximal runs of dashes in a line
RECURSIVE DashGroupsFrom(_, _)
DashGroupsFrom(line, k) ==
    IF k > Len(line) THEN 0
    ELSE (IF line[k] = DASH /\ (k = 1 \/ line[k - 1] # DASH) THEN 1 ELSE 0)
         + DashGroupsFrom(line, k + 1)

DashGroups(line) == DashGroupsFrom(line, 1)

IsPipeLine(line) ==
    Len(line) >= 2 /\ line[1] = PIPE /\ line[Len(line)] = PIPE

\* a pipe line of dashes, pipes and spaces only
IsSeparatorLine(line) ==
    /\ IsPipeLine(line)
    /\ \A k \in 1..Len(line) : line[k] \in {DASH, PIPE, SP}
    /\ \E k \in 1..Len(line) : line[k] = DASH

\* the content holds a pipe line followed by a separator line
HasPipeTable(content) ==
    /\ content # None
    /\ LET lines == Split(content, NL)
       IN  \E k \in 1..(Len(lines) - 1) :
               IsPipeLine(lines[k]) /\ IsSeparatorLine(lines[k + 1])

\* the left edges of the words of a row
WordXs(info) == [k \in 1..Len(info.words) |-> info.words[k].x0]

\* a row of three words, each a cell text of under 30 characters
ThreeShortCells(info) ==
    /\ Len(info.words) = 3
    /\ \A k \in 1..3 : Len(info.words[k].text) < 30

\* C10 (as claimed): when three or more rows of a page, at least 20% of
\* its rows, each hold three short cell texts at the same three left
\* edges, the output of the page holds a pipe table with a separator line
\* of dashes, pipes and spaces.
C10_ThreeAlignedColumnsGiveTable ==
    ppc = "extracted" =>
        LET row_info == pgOut.analysis.row_info
        IN  \A n \in 1..Len(row_info) :
                LET rows == {k \in 1..Len(row_info) :
                                /\ ThreeShortCells(row_info[k])
                                /\ WordXs(row_info[k]) = WordXs(row_info[n])}
                IN  (/\ ThreeShortCells(row_info[n])
                     /\ Cardinality(rows) >= 3
                     /\ 5 * Cardinality(rows) >= Len(row_info))
                    => HasPipeTable(pgOut.content)

\* C10 (amended): when three or more rows of a page, at least 20% of its
\* rows, each hold three short cell texts at the same three left edges,
\* these edges being more than 50 apart, none of these rows being a
\* paragraph row (wider than 55% of the page and longer than 60
\* characters) or starting with a bare numbering prefix, and every other
\* row of three or more x-groups that is not a paragraph row has its
\* x-groups at the same three positions, the output of the page holds a
\* pipe table with a separator line of dashes, pipes and spaces.
C10_ThreeSeparatedColumnsGiveTable ==
    ppc = "extracted" =>
        LET row_info == pgOut.analysis.row_info
        IN  \A n \in 1..Len(row_info) :
                LET cols == WordXs(row_info[n])
                    rows == {k \in 1..Len(row_info) :
                                /\ ThreeShortCells(row_info[k])
                                /\ WordXs(row_info[k]) = cols
                                /\ ~row_info[k].is_paragraph
                                /\ ~row_info[k].has_partial_numbering}
                IN  (/\ n \in rows
                     /\ cols[2] - cols[1] > x_group_gap
                     /\ cols[3] - cols[2] > x_group_gap
                     /\ Cardinality(rows) >= 3
                     /\ 5 * Cardinality(rows) >= Len(row_info)
                     /\ \A k \in 1..Len(row_info) :
                            (/\ row_info[k].num_columns >= min_table_columns
                             /\ ~row_info[k].is_paragraph)
                            => row_info[k].x_groups = cols)
                    => HasPipeTable(pgOut.content)

\* three such rows under a heading
C10_Witness ==
    /\ ppc = "extracted"
    /\ Len(pgOut.analysis.row_info) = 4
    /\ Len(pgOut.analysis.row_info[1].words) = 1
    /\ \A k \in 2..4 :
           /\ ThreeShortCells(pgOut.analysis.row_info[k])
           /\ WordXs(pgOut.analysis.row_info[k]) = <<0, 52, 104>>
           /\ ~pgOut.analysis.row_info[k].has_partial_numbering
    /\ HasPipeTable(pgOut.content)

\* a long prose line: wider than 55% of the page and longer than 60
\* characters, measured on the words of the row
ProseRow(info, page_width) ==
    /\ 100 * (info.words[Len(info.words)].x1 - info.words[1].x0)
           > 55 * page_width
    /\ Len(info.text) > 60

StartsAndEndsWithPipe(line) ==
    line # <<>> /\ line[1] = PIPE /\ line[Len(line)] = PIPE

\* re.match(r"^\|[\s\-|]+\|$", line)
SeparatorRowMatch(line) ==
    /\ Len(line) >= 3
    /\ line[1] = PIPE
    /\ line[Len(line)] = PIPE
    /\ \A k \in 2..(Len(line) - 1) : line[k] \in Whitespace \cup {DASH, PIPE}

\* [cell.strip() for cell in line.split("|")[1:-1]]
ParsedCells(line) ==
    LET parts == Split(line, PIPE)
    IN  [c \in 1..(Len(parts) - 2) |-> Strip(parts[c + 1])]

\* the loop of extract_markdown_tables from line k on; in_table is true
\* whenever current_table is not empty, so it is not carried
RECURSIVE ExtractTablesFrom(_, _, _, _)
ExtractTablesFrom(lines, k, current_table, tables) ==
    IF k > Len(lines)
    THEN IF current_table # <<>> THEN Append(tables, current_table)
         ELSE tables
    ELSE LET line == Strip(lines[k])
         IN  IF StartsAndEndsWithPipe(line)
             THEN IF SeparatorRowMatch(line)
                  THEN ExtractTablesFrom(lines, k + 1, current_table, tables)
                  ELSE ExtractTablesFrom(lines, k + 1,
                           Append(current_table, ParsedCells(line)), tables)
             ELSE IF current_table # <<>>
                  THEN ExtractTablesFrom(lines, k + 1, <<>>,
                           Append(tables, current_table))
                  ELSE ExtractTablesFrom(lines, k + 1, <<>>, tables)

\* the tables a reader of the Markdown text finds in it
extract_markdown_tables(text_content) ==
    ExtractTablesFrom(Split(text_content, NL), 1, <<>>, <<>>)

\* a cell matrix with the padding of every cell removed
Trimmed(cells) ==
    [r \in 1..Len(cells) |->
        [c \in 1..Len(cells[r]) |-> Strip(cells[r][c])]]

\* C12: re-parsing the lines rendered for a table region (separator line
\* dropped, every other line split on the pipe character, cells trimmed)
\* gives back the cell matrix of the region: the same rows, the same number
\* of cells in each row, the same cell strings up to padding.
C12_RenderedTableRoundTrips ==
    ppc = "extracted" =>
        \A k \in 1..Len(pgOut.analysis.tables) :
            LET table == pgOut.analysis.tables[k]
            IN  extract_markdown_tables(Join(table.lines, <<NL>>))
                    = <<Trimmed(table.cells)>>

\* the words of a line of output: what stands between spaces, the pipes
\* of a table row left out
Tokens(line) ==
    LET IsToken(t) == t # <<>> /\ t # <<PIPE>>
    IN  SelectSeq(Split(line, SP), IsToken)

\* the words of a row, left to right
RowTokens(info) ==
    Tokens(Join([k \in 1..Len(info.words) |-> info.words[k].text], <<SP>>))

\* the place in the output of the line for row k: a rendered region holds
\* one line more than it has rows, its separator, behind its first row
LineOfRow(table_regions, k) ==
    k + Cardinality({j \in 1..Len(table_regions) : table_regions[j][1] < k})

\* C13: the output of a form-like page keeps the rows top to bottom: of two
\* rows the one with the smaller bucket key is carried by the earlier
\* output line, plain line or row of a rendered region alike, and the
\* output holds nothing but these lines and one separator per region.
C13_RowOrderPreserved ==
    (ppc = "extracted" /\ pgOut.analysis.exit = "form") =>
        LET a == pgOut.analysis
            n == Len(a.row_info)
        IN  /\ Len(a.result_lines) = n + Len(a.table_regions)
            /\ \A k \in 1..n :
                   LET at == LineOfRow(a.table_regions, k)
                   IN  /\ at \in 1..Len(a.result_lines)
                       /\ Tokens(a.result_lines[at]) = RowTokens(a.row_info[k])
            /\ \A k1, k2 \in 1..n :
                   a.row_info[k1].y_key < a.row_info[k2].y_key
                   => LineOfRow(a.table_regions, k1)
                          < LineOfRow(a.table_regions, k2)

\* text, then a region of two different rows, then text
C13_Witness ==
    /\ ppc = "extracted"
    /\ pgOut.analysis.exit = "form"
    /\ \E j \in 1..Len(pgOut.analysis.table_regions) :
           LET region == pgOut.analysis.table_regions[j]
               row_info == pgOut.analysis.row_info
           IN  /\ region[1] > 1
               /\ region[2] <= Len(row_info)
               /\ region[2] - region[1] >= 2
               /\ RowTokens(row_info[region[1]])
                      # RowTokens(row_info[region[1] + 1])

\* the words of a sequence of strings, one string after the other
RECURSIVE AllTokens(_)
AllTokens(strings) ==
    IF strings = <<>> THEN <<>>
    ELSE Tokens(strings[1]) \o AllTokens(Tail(strings))

\* the regions that hold row k
RegionsOfRow(table_regions, k) ==
    {j \in 1..Len(table_regions) :
        table_regions[j][1] <= k /\ k < table_regions[j][2]}

\* the lines of the output that are not separator lines
NonSeparatorLines(result_lines) ==
    LET NotSeparator(line) == ~IsSeparatorLine(line)
    IN  SelectSeq(result_lines, NotSeparator)

\* C14: the output of a form-like page holds every word of the page once:
\* the words of its lines, separators aside, are the words of the rows, no
\* row is in two regions, a row outside the regions is one plain line, a
\* row inside is one row of its region, and the cells of that row hold
\* the words of the row, each once.
C14_EveryWordOnce ==
    (ppc = "extracted" /\ pgOut.analysis.exit = "form") =>
        LET a == pgOut.analysis
            n == Len(a.row_info)
            plain == {k \in 1..n : RegionsOfRow(a.table_regions, k) = {}}
        IN  /\ AllTokens(NonSeparatorLines(a.result_lines))
                   = AllTokens([k \in 1..n |-> a.row_info[k].text])
            /\ \A k \in 1..n :
                   Cardinality(RegionsOfRow(a.table_regions, k)) <= 1
            /\ Len(NonSeparatorLines(a.result_lines)) = n
            /\ Len(a.result_lines) - n = Len(a.table_regions)
            /\ \A k \in plain :
                   \E at \in 1..Len(a.result_lines) :
                       a.result_lines[at] = a.row_info[k].text
            /\ \A j \in 1..Len(a.tables) :
                   LET region == a.table_regions[j]
                       cells == a.tables[j].cells
                   IN  /\ Len(cells) = region[2] - region[1]
                       /\ Len(a.tables[j].lines) = Len(cells) + 1
                       /\ \A r \in 1..Len(cells) :
                              AllTokens(cells[r])
                                  = RowTokens(a.row_info[region[1] + r - 1])

\* a page with a plain line and a table row that has two words in a cell
C14_Witness ==
    /\ ppc = "extracted"
    /\ pgOut.analysis.exit = "form"
    /\ \E k \in 1..Len(pgOut.analysis.row_info) :
           RegionsOfRow(pgOut.analysis.table_regions, k) = {}
    /\ \E j \in 1..Len(pgOut.analysis.tables) :
           LET cells == pgOut.analysis.tables[j].cells
           IN  \E r \in 1..Len(cells) :
                   /\ Len(pgOut.analysis.row_info[
                              pgOut.analysis.table_regions[j][1] + r - 1
                          ].words) = 3
                   /\ \E c \in 1..Len(cells[r]) :
                          Len(Tokens(cells[r][c])) = 2
                   /\ \E c \in 1..Len(cells[r]) : cells[r][c] = <<>>

\* the tokens of inner stand one after the other somewhere in outer
HoldsTokens(outer, inner) ==
    \E at \in 0..(Len(outer) - Len(inner)) :
        SubSeq(outer, at + 1, at + Len(inner)) = inner

\* the words of a row that start at a global column boundary, each with
\* the index of its boundary
BoundaryWords(info, global_columns) ==
    {<<w, i>> \in (1..Len(info.words)) \X (1..Len(global_columns)) :
        info.words[w].x0 = global_columns[i]}

\* C15: in a rendered table row a word whose left edge is global column
\* boundary i stands in cell i, so that two words of the row that start at
\* two different boundaries stand in two different cells.
C15_BoundaryWordInItsCell ==
    (ppc = "extracted" /\ pgOut.analysis.exit = "form") =>
        LET a == pgOut.analysis
        IN  \A j \in 1..Len(a.tables) :
                \A r \in 1..Len(a.tables[j].cells) :
                    LET info == a.row_info[a.table_regions[j][1] + r - 1]
                        cells == a.tables[j].cells[r]
                    IN  \A p \in BoundaryWords(info, a.global_columns) :
                            /\ HoldsTokens(Tokens(cells[p[2]]),
                                           Tokens(info.words[p[1]].text))
                            /\ \A c \in 1..Len(cells) :
                                   c # p[2] =>
                                       ~HoldsTokens(Tokens(cells[c]),
                                            Tokens(info.words[p[1]].text))

\* a table row with words at two different boundaries, on a page that has
\* a table row with a word off the boundaries
C15_Witness ==
    /\ ppc = "extracted"
    /\ pgOut.analysis.exit = "form"
    /\ LET a == pgOut.analysis
           TableRows == {k \in 1..Len(a.row_info) :
                            RegionsOfRow(a.table_regions, k) # {}}
       IN  /\ \E k \in TableRows :
                  \E p, q \in BoundaryWords(a.row_info[k], a.global_columns) :
                      p[2] # q[2]
           /\ \E k \in TableRows :
                  \E w \in 1..Len(a.row_info[k].words) :
                      \A i \in 1..Len(a.global_columns) :
                          a.row_info[k].words[w].x0 # a.global_columns[i]

\* the longest cell of column c of a cell matrix, and 3 at least
WidestCell(cells, c) ==
    LET lens == {Len(cells[r][c]) : r \in 1..Len(cells)} \cup {3}
    IN  CHOOSE w \in lens : \A v \in lens : v <= w

\* the sum of the first n widths
RECURSIVE WidthsUpTo(_, _)
WidthsUpTo(cells, n) ==
    IF n = 0 THEN 0 ELSE WidthsUpTo(cells, n - 1) + WidestCell(cells, n)

\* the characters of a rendered line between the pipes of column c, the
\* padding space on either side left out
Slot(line, cells, c) ==
    SubSeq(line, 3 * c + WidthsUpTo(cells, c - 1),
                 3 * c + WidthsUpTo(cells, c) - 1)

\* C16: all lines of a rendered region, header, separator and data rows,
\* are equally long: the sum of the column widths plus 3 * num_cols + 1,
\* the width of a column being its longest cell in the region and 3 at
\* least; a cell stands whole at the left of its slot, followed by spaces
\* only, and the separator fills the slot with dashes.
C16_RegionLinesAligned ==
    ppc = "extracted" =>
        \A j \in 1..Len(pgOut.analysis.tables) :
            LET cells == pgOut.analysis.tables[j].cells
                lines == pgOut.analysis.tables[j].lines
                num_cols == Len(pgOut.analysis.global_columns)
            IN  /\ \A k \in 1..Len(lines) :
                       Len(lines[k])
                           = WidthsUpTo(cells, num_cols) + 3 * num_cols + 1
                /\ \A r \in 1..Len(cells) : \A c \in 1..num_cols :
                       LET slot == Slot(lines[IF r = 1 THEN 1 ELSE r + 1],
                                        cells, c)
                           cell == cells[r][c]
                       IN  /\ Len(slot) = WidestCell(cells, c)
                           /\ SubSeq(slot, 1, Len(cell)) = cell
                           /\ \A i \in (Len(cell) + 1)..Len(slot) :
                                  slot[i] = SP
                /\ \A c \in 1..num_cols :
                       Slot(lines[2], cells, c)
                           = [i \in 1..WidestCell(cells, c) |-> DASH]

\* a page with two regions of different widths, one of them with a
\* column whose cells are all shorter than three characters
C16_Witness ==
    /\ ppc = "extracted"
    /\ \E j, k \in 1..Len(pgOut.analysis.tables) :
           /\ Len(pgOut.analysis.tables[j].lines[1])
                  # Len(pgOut.analysis.tables[k].lines[1])
           /\ Len(pgOut.analysis.tables[j].cells) >= 2
           /\ \E c \in 1..Len(pgOut.analysis.global_columns) :
                  \A r \in 1..Len(pgOut.analysis.tables[j].cells) :
                      Len(pgOut.analysis.tables[j].cells[r][c]) < 3

----------------------------------------------------------------------------
(* Properties of the column model (SpecWide) *)

\* the exits of the page function behind an accepted column model
ModelAccepted(a) == a.exit \in {"form", "few_table_rows"}

\* C17: the boundaries of an accepted column model are strictly
\* increasing, two consecutive ones are at least the adaptive tolerance of
\* the page apart, and there are two of them at least; where no model is
\* accepted the page function returns None.
C17_AcceptedModelWellSeparated ==
    ppc = "extracted" =>
        LET a == pgOut.analysis
            gc == a.global_columns
        IN  /\ ModelAccepted(a) =>
                   /\ Len(gc) >= 2
                   /\ a.adaptive_tolerance >= 1
                   /\ \A i \in 1..(Len(gc) - 1) :
                          /\ gc[i] < gc[i + 1]
                          /\ gc[i + 1] - gc[i] >= a.adaptive_tolerance
            /\ ~ModelAccepted(a) =>
                   /\ pgOut.content = None
                   /\ a.tables = <<>>

\* an accepted model that merged pooled positions into fewer boundaries,
\* with a tolerance taken from the gaps of the page
C17_Witness ==
    /\ ppc = "extracted"
    /\ ModelAccepted(pgOut.analysis)
    /\ Len(pgOut.analysis.global_columns) >= 3
    /\ pgOut.analysis.adaptive_tolerance
           \notin {tolerance_low, tolerance_high, tolerance_fallback}
    /\ \E k \in 1..Len(pgOut.analysis.pool) :
           \A i \in 1..Len(pgOut.analysis.global_columns) :
               pgOut.analysis.pool[k] # pgOut.analysis.global_columns[i]

\* a page that passed the gates of column width and column density and has
\* more than one boundary: the cap on the boundary count decides
CapDecides(a) == a.exit \in {"too_many", "form", "few_table_rows"}

\* 20 * page_width / 612 rounded to the nearest integer; no integer page
\* width puts the quotient half-way between two integers
RoundedCap(page_width) ==
    LET nearest == (2 * 20 * page_width + 612) \div (2 * 612)
    IN  IF nearest > 15 THEN nearest ELSE 15

\* 20 * page_width / 612 with its fraction dropped
TruncatedCap(page_width) ==
    LET whole == (20 * page_width) \div 612
    IN  IF whole > 15 THEN whole ELSE 15

\* C18 as stated: a page that is acceptable otherwise is rejected exactly
\* when it has more boundaries than max(15, round(20 * page_width / 612)).
C18_RejectedIffOverRoundedCap ==
    (ppc = "extracted" /\ CapDecides(pgOut.analysis)) =>
        (pgOut.analysis.exit = "too_many"
         <=> Len(pgOut.analysis.global_columns) > RoundedCap(pgWidth))

\* C18 amended: a page that is acceptable otherwise is rejected exactly
\* when it has more boundaries than max(15, 20 * page_width / 612 with the
\* fraction dropped); a rejected page returns None.
C18_RejectedIffOverTruncatedCap ==
    (ppc = "extracted" /\ CapDecides(pgOut.analysis)) =>
        /\ pgOut.analysis.exit = "too_many"
               <=> Len(pgOut.analysis.global_columns) > TruncatedCap(pgWidth)
        /\ pgOut.analysis.exit = "too_many" => pgOut.content = None

\* sixteen boundaries rejected on a page where the rounded cap is sixteen
C18_Witness ==
    /\ ppc = "extracted"
    /\ pgOut.analysis.exit = "too_many"
    /\ Len(pgOut.analysis.global_columns) = 16
    /\ RoundedCap(pgWidth) = 16
    /\ TruncatedCap(pgWidth) = 15

----------------------------------------------------------------------------
(* Properties of extract_cells (SpecPage) *)

\* the last column that starts at or before limit, none_found when no
\* column does
LastColumnUpTo(limit, global_columns, none_found) ==
    LET starts == {i \in 1..Len(global_columns) : global_columns[i] <= limit}
    IN  IF starts = {} THEN none_found
        ELSE CHOOSE i \in starts : \A m \in starts : m <= i

\* the last column that starts at or before word.x0 - 20, else the final one
ColumnBehindMargin(word_x, global_columns) ==
    LastColumnUpTo(word_x - 20, global_columns, Len(global_columns))

\* the last column that starts at or before word.x0 + 20, else the first one
ColumnAheadOfMargin(word_x, global_columns) ==
    LastColumnUpTo(word_x + 20, global_columns, 1)

\* the cells of a row when ColumnOf chooses the column of a word: the
\* words of a column in the order of the row, a space between them
CellsBy(ColumnOf(_, _), row_words, global_columns) ==
    [c \in 1..Len(global_columns) |->
        LET InColumn(word) == ColumnOf(word.x0, global_columns) = c
            chosen == SelectSeq(row_words, InColumn)
        IN  Join([k \in 1..Len(chosen) |-> chosen[k].text], <<SP>>)]

\* C19 as stated: every word of a table row is in the last column that
\* starts at or before word.x0 - 20, in the final column when there is
\* none, and the words of a cell are joined left to right by one space.
C19_WordsInColumnBehindMargin ==
    (ppc = "extracted" /\ pgOut.analysis.exit = "form") =>
        LET a == pgOut.analysis
        IN  \A j \in 1..Len(a.tables) :
                \A r \in 1..Len(a.tables[j].cells) :
                    a.tables[j].cells[r]
                        = CellsBy(ColumnBehindMargin,
                              a.row_info[a.table_regions[j][1] + r - 1].words,
                              a.global_columns)

\* C19 amended: every word of a table row is in the last column that
\* starts at or before word.x0 + 20, in the first column when there is
\* none, and the words of a cell are joined left to right by one space.
C19_WordsInColumnAheadOfMargin ==
    (ppc = "extracted" /\ pgOut.analysis.exit = "form") =>
        LET a == pgOut.analysis
        IN  \A j \in 1..Len(a.tables) :
                \A r \in 1..Len(a.tables[j].cells) :
                    LET row_words ==
                            a.row_info[a.table_regions[j][1] + r - 1].words
                    IN  /\ \A w \in 1..(Len(row_words) - 1) :
                               row_words[w].x0 <= row_words[w + 1].x0
                        /\ a.tables[j].cells[r]
                               = CellsBy(ColumnAheadOfMargin, row_words,
                                         a.global_columns)

\* a table row with two words in one cell, the first of them starting left
\* of the boundary of its column
C19_Witness ==
    /\ ppc = "extracted"
    /\ pgOut.analysis.exit = "form"
    /\ LET a == pgOut.analysis
       IN  \E k \in 1..Len(a.row_info) :
               /\ RegionsOfRow(a.table_regions, k) # {}
               /\ \E v, w \in 1..Len(a.row_info[k].words) :
                      LET c == ColumnAheadOfMargin(a.row_info[k].words[v].x0,
                                                   a.global_columns)
                      IN  /\ v < w
                          /\ c = ColumnAheadOfMargin(
                                     a.row_info[k].words[w].x0,
                                     a.global_columns)
                          /\ a.row_info[k].words[v].x0 < a.global_columns[c]

----------------------------------------------------------------------------
(* Properties of the row classification and the regions (SpecPage) *)

\* the boundaries a word start is less than 40 from
BoundariesNear(word_x, global_columns) ==
    {i \in 1..Len(global_columns) :
        word_x - global_columns[i] < 40 /\ global_columns[i] - word_x < 40}

\* the boundaries the words of a row count for: each word for the first
\* boundary it is near
BoundariesCounted(info, global_columns) ==
    {i \in 1..Len(global_columns) :
        \E k \in 1..Len(info.words) :
            /\ i \in BoundariesNear(info.words[k].x0, global_columns)
            /\ \A m \in BoundariesNear(info.words[k].x0, global_columns) :
                   i <= m}

\* a row whose leftmost word is a bare numbering prefix
NumberingRow(info) ==
    \E k \in 1..Len(info.words) :
        /\ \A m \in 1..Len(info.words) : info.words[k].x0 <= info.words[m].x0
        /\ PARTIAL_NUMBERING_PATTERN(Strip(info.words[k].text))

\* C22: with an accepted model a row is a table row exactly when it is
\* neither a paragraph row nor a numbering-prefix row and its words count
\* for two or more boundaries, a word counting for the first boundary it
\* is less than 40 from; a paragraph or numbering-prefix row is in no
\* region.
C22_TableRowIffAligned ==
    (ppc = "extracted" /\ ModelAccepted(pgOut.analysis)) =>
        LET a == pgOut.analysis
        IN  /\ Len(a.is_table_row) = Len(a.row_info)
            /\ \A k \in 1..Len(a.row_info) :
                   LET info == a.row_info[k]
                   IN  /\ a.is_table_row[k]
                          <=> /\ ~ProseRow(info, pgWidth)
                              /\ ~NumberingRow(info)
                              /\ Cardinality(BoundariesCounted(
                                     info, a.global_columns)) >= 2
                       /\ (ProseRow(info, pgWidth) \/ NumberingRow(info))
                              => RegionsOfRow(a.table_regions, k) = {}

\* a page with a numbering-prefix row whose words stand at three
\* boundaries, and a row whose only word is near two boundaries; neither
\* is a table row
C22_Witness ==
    /\ ppc = "extracted"
    /\ pgOut.analysis.exit = "form"
    /\ LET a == pgOut.analysis
       IN  /\ \E k \in 1..Len(a.row_info) :
                  /\ NumberingRow(a.row_info[k])
                  /\ Cardinality(BoundariesCounted(a.row_info[k],
                                                    a.global_columns)) = 3
                  /\ ~a.is_table_row[k]
           /\ \E k \in 1..Len(a.row_info) :
                  /\ Len(a.row_info[k].words) = 1
                  /\ Cardinality(BoundariesNear(a.row_info[k].words[1].x0,
                                                 a.global_columns)) = 2
                  /\ ~a.is_table_row[k]

\* C23: the regions of a page are the maximal runs of consecutive table
\* rows: every region is a non-empty range of table rows, start included
\* and end excluded; the regions are in the order of their first rows and
\* a row that is no table row stands between two of them; no region can be
\* extended at either end; every table row is in a region.
C23_RegionsAreMaximalRuns ==
    (ppc = "extracted" /\ ModelAccepted(pgOut.analysis)) =>
        LET a == pgOut.analysis
            n == Len(a.row_info)
            regions == a.table_regions
        IN  /\ \A j \in 1..Len(regions) :
                   /\ 1 <= regions[j][1]
                   /\ regions[j][1] < regions[j][2]
                   /\ regions[j][2] <= n + 1
                   /\ \A k \in regions[j][1]..(regions[j][2] - 1) :
                          a.is_table_row[k]
                   /\ regions[j][1] > 1 => ~a.is_table_row[regions[j][1] - 1]
                   /\ regions[j][2] <= n => ~a.is_table_row[regions[j][2]]
            /\ \A j \in 1..(Len(regions) - 1) :
                   regions[j][2] < regions[j + 1][1]
            /\ \A k \in 1..n :
                   a.is_table_row[k]
                   <=> Cardinality(RegionsOfRow(regions, k)) = 1
            /\ \A k \in 1..n :
                   Cardinality(RegionsOfRow(regions, k)) <= 1

\* a page with two regions, the first of two rows
C23_Witness ==
    /\ ppc = "extracted"
    /\ ModelAccepted(pgOut.analysis)
    /\ Len(pgOut.analysis.table_regions) = 2
    /\ pgOut.analysis.table_regions[1][2]
           - pgOut.analysis.table_regions[1][1] = 2

----------------------------------------------------------------------------
(* Properties of the page-level gate (SpecGate) *)

\* the rows of a page marked as table rows
TableRowsOf(a) == {k \in 1..Len(a.is_table_row) : a.is_table_row[k]}

\* C24: with an accepted column model, a page with fewer than 20% of its
\* rows marked as table rows is reported non-tabular, the page function
\* returning None and rendering nothing; a page with 20% or more is
\* form-like and its text holds a table.
C24_FifthOfRowsGate ==
    (ppc = "extracted" /\ ModelAccepted(pgOut.analysis)) =>
        LET a == pgOut.analysis
            table_rows == Cardinality(TableRowsOf(a))
            rows == Len(a.row_info)
        IN  IF 5 * table_rows < rows
            THEN /\ pgOut.content = None
                 /\ a.exit = "few_table_rows"
                 /\ a.tables = <<>>
            ELSE /\ pgOut.content # None
                 /\ a.exit = "form"
                 /\ HasPipeTable(pgOut.content)

\* a page of six rows with one table row, reported non-tabular
C24_Witness ==
    /\ ppc = "extracted"
    /\ ModelAccepted(pgOut.analysis)
    /\ Len(pgOut.analysis.row_info) = 6
    /\ Cardinality(TableRowsOf(pgOut.analysis)) = 1
    /\ pgOut.content = None

\* C29: when the page function returns a value other than None the page
\* has at least one table region; the returned text holds the header line
\* of every region with its separator line behind it, is neither empty nor
\* whitespace-only, and is the chunk a form page adds to the document.
C29_FormContentHoldsATable ==
    (ppc = "extracted" /\ pgOut.content # None) =>
        LET a == pgOut.analysis
            lines == Split(pgOut.content, NL)
        IN  /\ Len(a.table_regions) >= 1
            /\ Len(a.tables) = Len(a.table_regions)
            /\ \A j \in 1..Len(a.tables) :
                   \E k \in 1..(Len(lines) - 1) :
                       /\ lines[k] = a.tables[j].lines[1]
                       /\ lines[k + 1] = a.tables[j].lines[2]
                       /\ IsPipeLine(lines[k])
                       /\ IsSeparatorLine(lines[k + 1])
            /\ pgOut.content # <<>>
            /\ Strip(pgOut.content) # <<>>
            /\ FormChunk(pgOut.content) = <<pgOut.content>>

\* a page of five rows that passes the gate with its one table row
C29_Witness ==
    /\ ppc = "extracted"
    /\ pgOut.content # None
    /\ Len(pgOut.analysis.row_info) = 5
    /\ Len(pgOut.analysis.table_regions) = 1
    /\ Cardinality(TableRowsOf(pgOut.analysis)) = 1

----------------------------------------------------------------------------
(* Properties of the page loop of convert (Spec) *)

\* the pages among the first n of the document for which the page function
\* returns None
PlainAmong(n) ==
    {k \in 1..n : form_content[doc.pages[k]].content = None}

\* while the loop runs: the pages before page_idx are the pages processed,
\* in the order of the document, each tallied once, and nothing of the
\* output exists
LoopInOrder ==
    cpc = "pages" =>
        /\ Len(page_log) = page_idx - 1
        /\ page_idx - 1 <= Len(doc.pages)
        /\ \A k \in 1..Len(page_log) :
               page_log[k].exit = form_content[doc.pages[k]].exit
        /\ plain_pages = Cardinality(PlainAmong(page_idx - 1))
        /\ plain_pages + form_pages = page_idx - 1
        /\ markdown = <<>>
        /\ markdown_from = "none"
        /\ linear_from = <<>>

\* a turn of the loop takes the next page and adds one to one tally; the
\* step that leaves the loop for the decision finds every page tallied
LoopStep ==
    /\ (cpc = "pages" /\ cpc' = "pages") =>
           /\ page_idx' = page_idx + 1
           /\ \/ plain_pages' = plain_pages + 1 /\ form_pages' = form_pages
              \/ plain_pages' = plain_pages /\ form_pages' = form_pages + 1
    /\ (cpc = "pages" /\ (markdown_from' # "none" \/ linear_from' # <<>>)) =>
           /\ page_idx = Len(doc.pages) + 1
           /\ plain_pages + form_pages = Len(doc.pages)

\* C25: the pages are processed in the order of the document and each is
\* tallied once, as plain or as form, so that plain_pages + form_pages is
\* the number of pages processed so far; the document-level decision is
\* taken only when every page has been tallied, and no output exists
\* before it.
C25_TalliedInSequenceBeforeDecision ==
    []LoopInOrder /\ [][LoopStep]_vars

\* a call that decided for the chunks of a document of plain and form pages
C25_Witness ==
    /\ cpc = "returned"
    /\ markdown_from = "chunks"
    /\ handled = 0
    /\ plain_pages >= 1
    /\ form_pages >= 2
    /\ plain_pages + form_pages = Len(doc.pages)

\* C27: a page with a non-empty pool of candidate column positions has
\* three global column boundaries or more; the page function does not
\* leave by the single-column rejection, and every table it renders has
\* three columns or more.
C27_ThreeBoundariesAtLeast ==
    ppc = "extracted" =>
        LET a == pgOut.analysis
        IN  /\ a.pool # <<>> => Len(a.global_columns) >= 3
            /\ a.exit # "single"
            /\ \A j \in 1..Len(a.tables) :
                   /\ \A r \in 1..Len(a.tables[j].cells) :
                          Len(a.tables[j].cells[r]) >= 3
                   /\ DashGroups(a.tables[j].lines[2]) >= 3

\* a table of three columns on a page that also has a row of two
\* x_groups, which is not pooled
C27_Witness ==
    /\ ppc = "extracted"
    /\ pgOut.analysis.pool # <<>>
    /\ Len(pgOut.analysis.global_columns) = 3
    /\ Len(pgOut.analysis.tables) >= 1
    /\ \E k \in 1..Len(pgOut.analysis.row_info) :
           pgOut.analysis.row_info[k].num_columns = 2

\* the boundaries passed the gate of the average column width
PassedWidthGate(a) ==
    a.exit \in {"dense", "too_many", "few_table_rows", "form"}

\* C28: the density gate rejects no page: boundaries whose average width,
\* content width over boundary count, is 30 or more are at most 2.4 to the
\* inch (72 units), under the threshold of 10, and no page is reported
\* non-tabular for its density.
C28_DensityGateNeverRejects ==
    ppc = "extracted" =>
        LET a == pgOut.analysis
            n == Len(a.global_columns)
            content_width == a.global_columns[n] - a.global_columns[1]
        IN  /\ a.exit # "dense"
            /\ PassedWidthGate(a) =>
                   /\ content_width >= 30 * n
                   /\ 5 * 72 * n <= 12 * content_width

\* boundaries that pass the width gate with an average width under 31
C28_Witness ==
    /\ ppc = "extracted"
    /\ PassedWidthGate(pgOut.analysis)
    /\ LET gc == pgOut.analysis.global_columns
       IN  gc[Len(gc)] - gc[1] < 31 * Len(gc)

----------------------------------------------------------------------------
(* Properties of the adaptive tolerance (SpecTol) *)

\* the gaps over 5 between consecutive pooled positions, sorted
SortedGapsOf(pool) ==
    LET positions == SortInts(pool)
        between == [k \in 1..(Len(positions) - 1) |->
                       positions[k + 1] - positions[k]]
    IN  SortInts(SelectSeq(between, LAMBDA d : d > 5))

\* the tolerance the claim gives for a pool
ToleranceAsClaimed(pool) ==
    LET gaps == SortedGapsOf(pool)
        n == Len(gaps)
    IN  IF n >= 3
        THEN LET value == gaps[(7 * n) \div 10 + 1]
             IN  IF value < 25 THEN 25 ELSE IF value > 50 THEN 50 ELSE value
        ELSE 35

\* C26: the adaptive tolerance of a page is within 25..50: with three or
\* more gaps over 5 between the sorted pooled positions it is the gap at
\* index floor(0.7 * n) of the n sorted gaps, clamped to 25..50, and 35
\* otherwise.
C26_ToleranceIsSeventiethPercentile ==
    (ppc = "extracted" /\ pgOut.analysis.pool # <<>>) =>
        /\ pgOut.analysis.adaptive_tolerance \in 25..50
        /\ pgOut.analysis.adaptive_tolerance
               = ToleranceAsClaimed(pgOut.analysis.pool)

----------------------------------------------------------------------------
(* Properties of _merge_partial_numbering_lines (SpecMerge) *)

\* C9: the post-processor run on its own output gives that output back.
C9_MergeIdempotent ==
    Len(passOut) = 2 => passOut[2] = passOut[1]

\* the first run merged a prefix, the second run had nothing left to merge
C9_Witness ==
    /\ Len(passOut) = 2
    /\ passOut[1] # text
    /\ passOut[2] = passOut[1]

\* a line with inline content: not blank, and more than a bare prefix
InlineContent(line) ==
    Strip(line) # <<>> /\ ~PARTIAL_NUMBERING_PATTERN(Strip(line))

\* the index of the last non-blank line before line i, 0 when there is none
PrevNonBlank(lines, i) ==
    LET before == {k \in 1..(i - 1) : Strip(lines[k]) # <<>>}
    IN  IF before = {} THEN 0
        ELSE CHOOSE k \in before : \A m \in before : m <= k

\* how many bare prefix lines stand in a row right before line i, blank
\* lines not counted
RECURSIVE PrefixRun(_, _)
PrefixRun(lines, i) ==
    LET p == PrevNonBlank(lines, i)
    IN  IF p = 0 THEN 0
        ELSE IF ~PARTIAL_NUMBERING_PATTERN(Strip(lines[p])) THEN 0
        ELSE 1 + PrefixRun(lines, p)

\* the non-blank lines that follow an odd number of bare prefix lines
FollowsOddRun(lines) ==
    {i \in 1..Len(lines) :
        Strip(lines[i]) # <<>> /\ PrefixRun(lines, i) % 2 = 1}

NonBlankCount(lines) ==
    Cardinality({i \in 1..Len(lines) : Strip(lines[i]) # <<>>})

\* C20 as stated: every line with inline content is a line of the output,
\* character for character.
C20_InlineLinesUntouched ==
    mpc = "merged" =>
        LET lines == Split(text, NL)
            out == Split(passOut[1], NL)
        IN  \A i \in 1..Len(lines) :
                InlineContent(lines[i])
                => \E k \in 1..Len(out) : out[k] = lines[i]

\* C20 amended: a line with inline content is a line of the output,
\* character for character, unless the non-blank lines right before it
\* are an odd number of bare prefix lines; then its trimmed content stands
\* behind the last of them and one space, on one line of the output.
\* Nothing else is taken out of the non-blank lines.
C20_InlineLinesUntouchedUnlessMerged ==
    mpc = "merged" =>
        LET lines == Split(text, NL)
            out == Split(passOut[1], NL)
        IN  /\ \A i \in 1..Len(lines) :
                   InlineContent(lines[i]) =>
                       IF i \in FollowsOddRun(lines)
                       THEN \E k \in 1..Len(out) :
                                out[k] = Strip(lines[PrevNonBlank(lines, i)])
                                             \o <<SP>> \o Strip(lines[i])
                       ELSE \E k \in 1..Len(out) : out[k] = lines[i]
            /\ NonBlankCount(out)
                   = NonBlankCount(lines) - Cardinality(FollowsOddRun(lines))

\* a text with a line that is merged into the prefix before it and a line
\* that is left as it is
C20_Witness ==
    /\ mpc = "merged"
    /\ passOut[1] # text
    /\ LET lines == Split(text, NL)
       IN  /\ \E i \in FollowsOddRun(lines) : InlineContent(lines[i])
           /\ \E i \in 1..Len(lines) :
                  InlineContent(lines[i]) /\ i \notin FollowsOddRun(lines)

\* a bare prefix line
BarePrefix(line) == PARTIAL_NUMBERING_PATTERN(Strip(line))

\* the index of the first non-blank line behind line i, 0 when there is none
FirstNonBlankAfter(lines, i) ==
    LET behind == {k \in (i + 1)..Len(lines) : Strip(lines[k]) # <<>>}
    IN  IF behind = {} THEN 0
        ELSE CHOOSE k \in behind : \A m \in behind : k <= m

\* a bare prefix that starts a merge: it was not consumed by the prefix
\* before it, and a non-blank line follows
StartsMerge(lines, i) ==
    /\ BarePrefix(lines[i])
    /\ i \notin FollowsOddRun(lines)
    /\ FirstNonBlankAfter(lines, i) # 0

\* a line that goes into the merge started by a prefix before it: the
\* next non-blank line, and the blank lines in between
TakenByMerge(lines, i) ==
    \E p \in 1..(i - 1) :
        StartsMerge(lines, p) /\ i <= FirstNonBlankAfter(lines, p)

\* the lines the claim asks for, from line i on
RECURSIVE LinesAsClaimed(_, _)
LinesAsClaimed(lines, i) ==
    IF i > Len(lines) THEN <<>>
    ELSE (IF TakenByMerge(lines, i) THEN <<>>
          ELSE IF StartsMerge(lines, i)
               THEN <<Strip(lines[i]) \o <<SP>>
                      \o Strip(lines[FirstNonBlankAfter(lines, i)])>>
               ELSE <<lines[i]>>)
         \o LinesAsClaimed(lines, i + 1)

\* C21: a bare prefix line followed by a non-blank line is replaced,
\* together with the blank lines in between and that non-blank line, by
\* the one line prefix, space, trimmed next line; a line consumed so
\* starts no merge of its own even when it is a bare prefix; a bare prefix
\* with no non-blank line behind it stays as it is, as does every other
\* line.
C21_PrefixMergedWithNextLine ==
    mpc = "merged" =>
        passOut[1] = Join(LinesAsClaimed(Split(text, NL), 1), <<NL>>)

\* a bare prefix consumed by the prefix before it, with a non-blank line
\* behind it that it does not take
C21_Witness ==
    /\ mpc = "merged"
    /\ LET lines == Split(text, NL)
       IN  \E i \in FollowsOddRun(lines) :
               /\ BarePrefix(lines[i])
               /\ FirstNonBlankAfter(lines, i) # 0
               /\ passOut[1] # text

\* the whitespace-separated tokens of a text, line breaks counting as
\* whitespace
WhitespaceTokens(t) ==
    LET spaced == [k \in 1..Len(t) |-> IF t[k] \in Whitespace THEN SP ELSE t[k]]
    IN  SelectSeq(Split(spaced, SP), LAMBDA token : token # <<>>)

\* C30: the post-processor moves line breaks and blank lines only: the
\* whitespace-separated tokens of the whole text are the same, in the same
\* order, before and after it, and the output has no more lines than the
\* input.
C30_TokensKeptLinesNotAdded ==
    mpc = "merged" =>
        /\ WhitespaceTokens(passOut[1]) = WhitespaceTokens(text)
        /\ Len(Split(passOut[1], NL)) <= Len(Split(text, NL))

\* a bare prefix merged with a line behind a blank line: two lines fewer,
\* the two tokens kept
C30_Witness ==
    /\ mpc = "merged"
    /\ Len(WhitespaceTokens(text)) = 2
    /\ Len(Split(passOut[1], NL)) + 2 = Len(Split(text, NL))
    /\ passOut[1] # text

====
